---- MODULE Spec2Model ----
(***************************************************************************)
(* gdserial (src/src/lib.rs).                                              *)
(* GdSerialManager: the port registry, one reader thread per open port,    *)
(* the framing of read chunks under a BufferingMode, the Mutex of each     *)
(* port, and the mpsc event channel drained by poll_events.                *)
(* GdSerial: one port owned by the object, probed before each operation.   *)
(*                                                                         *)
(* The specifications share the definitions that model the code:           *)
(*   Spec         the manager and its reader threads, interleaved, the     *)
(*                handlers of the host calling the manager from inside     *)
(*                poll_events (as in every specification with poll_events);*)
(*   SpecFair     the same, the threads scheduled and the joins returning; *)
(*   SpecCancel   the same over one id, the threads scheduled;             *)
(*   SpecReopen   Spec over one id that the host opens again and again;    *)
(*   SpecFraming  one open port: its reader thread and set_delimiter, the  *)
(*                reads returning whole chunks of text;                    *)
(*   SpecStop     one open port: its reader thread and close_port;         *)
(*   SpecLock     the manager, the reader threads, write_port and          *)
(*                reconfigure_port, a step per lock and per call on a port;*)
(*   SpecWait     the same over one id with poll_events and set_delimiter, *)
(*                the threads scheduled and the calls on a port returning; *)
(*   SpecRegistry the manager, its reader threads and the five calls that  *)
(*                use the registry, write_port included;                   *)
(*   SpecSession  a GdSerial and the calls of the host on it;              *)
(*   SpecLine     one readline() of a GdSerial, over longer lines;         *)
(*   SpecConfig   the configuration setters of a GdSerial.                 *)
(***************************************************************************)
EXTENDS Integers, Sequences, FiniteSets, Bags, TLC

VARIABLES
    \* GdSerialManager fields
    ports,           \* HashMap port_name -> Arc<Mutex<port>>   (0: no entry)
    reader_handles,  \* HashMap port_name -> JoinHandle         (0: no entry)
    stop_flags,      \* HashMap port_name -> Arc<AtomicBool>    (0: no entry)
    port_modes,      \* HashMap port_name -> BufferingMode      (NoMode: no entry)
    queue,           \* the mpsc channel tx -> rx
    \* the heap and the threads
    flag,            \* the AtomicBool each open_port allocates
    thr,             \* the reader threads, one per successful open_port
    \* the caller of the manager
    mgr,             \* the manager call in progress
    delivered,       \* every event poll_events has returned, in order
    produced,        \* every event a reader has sent, in order
    reads,           \* the reads so far that returned data or an error
    script,          \* SpecFraming: those reads' results, in order (Spec keeps none)
    lock,            \* the Mutex around the port each open_port acquires
    \* GdSerial
    ser              \* the fields of a GdSerial, and its last call

mvars == <<ports, reader_handles, stop_flags, port_modes, queue, flag, thr,
           mgr, delivered, produced, reads>>
vars == <<mvars, script, lock, ser>>

----------------------------------------------------------------------------
\* Bounds of the model.

\* open_port calls that acquire a transport (each spawns one reader thread)
MaxSpawns == 2
\* reads of the reader threads that return data or an error
MaxReads == 2
\* the same, of the one reader thread of SpecFraming
MaxScript == 4
\* reads that return data or an error, in SpecFair
MaxFairReads == 1
\* reads that return data or an error, in SpecLock
MaxLockReads == 1

\* b'\n'
LF == 10
\* '\r'
CR == 13
\* the reads of one readline call
MaxLineReads == 3
\* the reads of the readline call of SpecLine
MaxLineBytes == 4

\* the reader threads of a run at most; a specification spawns MaxSpawns of
\* them unless it says otherwise
MaxThreads == 3
\* the reader threads SpecWait spawns
MaxWaitSpawns == 1
\* the calls on the manager that the handlers of the host make while one
\* poll_events call emits its signals
MaxHandlerCalls == 1

\* the device ids the host uses
Ids == {"a", "b"}
Tids == 1..MaxThreads

----------------------------------------------------------------------------
\* enum BufferingMode
Raw == [tag |-> "Raw", delim |-> 0]
LineBuffered == [tag |-> "LineBuffered", delim |-> 0]
CustomDelimiter(d) == [tag |-> "CustomDelimiter", delim |-> d]
\* no entry in port_modes
NoMode == [tag |-> "None", delim |-> 0]

\* enum ReaderEvent
Data(port_name, data) == [kind |-> "Data", port |-> port_name, data |-> data]
Disconnected(port_name) == [kind |-> "Disconnected", port |-> port_name, data |-> <<>>]

\* io::Result<usize> of port.read(&mut read_buffer), with the bytes read
Ok(bytes) == [ok |-> TRUE, data |-> bytes, err |-> "None"]
Err(kind) == [ok |-> FALSE, data |-> <<>>, err |-> kind]
\* no read yet in this iteration
NoRead == [ok |-> FALSE, data |-> <<>>, err |-> "NoRead"]

\* the io::ErrorKind values a read fails with
ErrorKinds == {"TimedOut", "WouldBlock", "BrokenPipe"}

\* `delimiter as u8`
AsU8(i) == i % 256

\* open_port: mode int to BufferingMode
ModeOfInt(mode) ==
    IF mode = 0 THEN Raw
    ELSE IF mode = 2 THEN CustomDelimiter(LF)
    ELSE LineBuffered

----------------------------------------------------------------------------
\* The reader loop's match on read_result.

Step(line_buffer, events, brk) ==
    [line_buffer |-> line_buffer, events |-> events, brk |-> brk]

\* for &byte in &read_buffer[..n] { line_buffer.push(byte); if byte == delim {send; clear} }
RECURSIVE FrameBytesStrip(_, _, _, _)
FrameBytesStrip(port_name, delim, line_buffer, bytes) ==
    IF bytes = <<>> THEN Step(line_buffer, <<>>, FALSE)
    ELSE IF Head(bytes) = delim
         THEN LET rest == FrameBytesStrip(port_name, delim, <<>>, Tail(bytes))
              IN Step(rest.line_buffer,
                      <<Data(port_name, line_buffer)>> \o rest.events, FALSE)
         ELSE FrameBytesStrip(port_name, delim, Append(line_buffer, Head(bytes)),
                              Tail(bytes))
RECURSIVE FrameBytes(_, _, _, _)
FrameBytes(port_name, delim, line_buffer, bytes) ==
    IF bytes = <<>> THEN Step(line_buffer, <<>>, FALSE)
    ELSE LET pushed == Append(line_buffer, Head(bytes))
         IN IF Head(bytes) = delim
            THEN LET rest == FrameBytes(port_name, delim, <<>>, Tail(bytes))
                 IN Step(rest.line_buffer,
                         <<Data(port_name, pushed)>> \o rest.events, FALSE)
            ELSE FrameBytes(port_name, delim, pushed, Tail(bytes))

\* BufferingMode::Raw => send Data(read_buffer[..n])
OnChunkRawBuffered(port_name, line_buffer, bytes) ==
    Step(line_buffer \o bytes, <<Data(port_name, line_buffer \o bytes)>>, FALSE)
OnChunkRaw(port_name, line_buffer, bytes) ==
    Step(line_buffer, <<Data(port_name, bytes)>>, FALSE)

\* Ok(n) => match mode
OnChunkFromEmpty(port_name, mode, line_buffer, bytes) ==
    IF mode.tag = "Raw" THEN OnChunkRaw(port_name, line_buffer, bytes)
    ELSE IF mode.tag = "LineBuffered"
         THEN FrameBytes(port_name, LF, <<>>, bytes)
         ELSE FrameBytes(port_name, mode.delim, <<>>, bytes)
OnChunk(port_name, mode, line_buffer, bytes) ==
    IF mode.tag = "Raw" THEN OnChunkRaw(port_name, line_buffer, bytes)
    ELSE IF mode.tag = "LineBuffered"
         THEN FrameBytes(port_name, LF, line_buffer, bytes)
         ELSE FrameBytes(port_name, mode.delim, line_buffer, bytes)

\* Err(ref e) if e.kind() == io::ErrorKind::TimedOut
OnTimeoutKeep(port_name, mode, line_buffer) ==
    IF line_buffer # <<>> /\ mode.tag # "Raw"
    THEN Step(line_buffer, <<Data(port_name, line_buffer)>>, FALSE)
    ELSE Step(line_buffer, <<>>, FALSE)
OnTimeout(port_name, mode, line_buffer) ==
    IF line_buffer # <<>> /\ mode.tag # "Raw"
    THEN Step(<<>>, <<Data(port_name, line_buffer)>>, FALSE)
    ELSE Step(line_buffer, <<>>, FALSE)

\* Err(_) => { send Disconnected; break }
OnErrorFlushes(port_name, line_buffer) ==
    Step(line_buffer,
         <<Data(port_name, line_buffer), Disconnected(port_name)>>, TRUE)
OnErrorTwice(port_name, line_buffer) ==
    Step(line_buffer, <<Disconnected(port_name), Disconnected(port_name)>>, TRUE)
OnError(port_name, line_buffer) ==
    Step(line_buffer, <<Disconnected(port_name)>>, TRUE)

\* the guard of the timeout arm
IsTimeoutArm(read_result) == read_result.err = "TimedOut"

\* match read_result { Ok(0) | Ok(n) | Err(TimedOut) | Err(_) }
HandleRead(port_name, mode, line_buffer, read_result) ==
    IF read_result.ok
    THEN IF Len(read_result.data) = 0
         THEN Step(line_buffer, <<>>, FALSE)
         ELSE OnChunk(port_name, mode, line_buffer, read_result.data)
    ELSE IF IsTimeoutArm(read_result)
         THEN OnTimeout(port_name, mode, line_buffer)
         ELSE OnError(port_name, line_buffer)

----------------------------------------------------------------------------
\* The reader threads (spawn_reader_thread's closure).

\* a thread that open_port has not spawned yet
Unborn ==
    [st |-> "unborn", port |-> "", mode |-> NoMode, pc |-> "check",
     line_buffer |-> <<>>, pending |-> <<>>, brk |-> FALSE,
     last |-> "NoRead"]

\* thread::spawn(move || { let mut line_buffer = Vec::new(); loop { ... } })
NewThread(port_name, mode) ==
    [Unborn EXCEPT !.st = "run", !.port = port_name, !.mode = mode]

\* the closure has returned: its locals are dropped
Exited(t) == [Unborn EXCEPT !.st = "done"]

\* the chunk a read of Spec returns: "x\n\ny"
Chunks == {<<120, 10, 10, 121>>}

\* what a read may return; past the bound only "no data this tick"
ReadResults(chunks, bound) ==
    IF reads < bound
    THEN {Ok(<<>>)} \cup {Ok(c) : c \in chunks} \cup {Err(k) : k \in ErrorKinds}
    ELSE {Ok(<<>>)}

\* Spec keeps no script
NoScript == <<NoRead>>

\* the read result, by name: "Ok" or the error's kind
ResultName(read_result) == IF read_result.ok THEN "Ok" ELSE read_result.err

\* if stop_flag.load(Ordering::Relaxed) { break; }
ReaderCheck_ignoresFlag(t) ==
    /\ thr[t].st = "run"
    /\ thr[t].pc = "check"
    /\ thr' = [thr EXCEPT ![t].pc = "read"]
    /\ UNCHANGED <<ports, reader_handles, stop_flags, port_modes, queue, flag,
                   mgr, delivered, produced, reads>>
ReaderCheck(t) ==
    /\ thr[t].st = "run"
    /\ thr[t].pc = "check"
    /\ thr' = [thr EXCEPT ![t] =
                  IF flag[t] THEN Exited(@)
                  ELSE [@ EXCEPT !.pc = "read"]]
    /\ UNCHANGED <<ports, reader_handles, stop_flags, port_modes, queue, flag,
                   mgr, delivered, produced, reads>>

\* where the loop goes once the events of this iteration are sent
AfterSend(t) ==
    IF t.pending # <<>> THEN [t EXCEPT !.pc = "send"]
    ELSE IF t.brk THEN Exited(t)
    ELSE [t EXCEPT !.pc = "check", !.last = "NoRead"]

\* port.read(&mut read_buffer) returns; match read_result
ReaderReadAt(t, results, at) ==
    /\ thr[t].st = "run"
    /\ thr[t].pc = at
    /\ \E read_result \in results :
          LET h == HandleRead(thr[t].port, thr[t].mode, thr[t].line_buffer,
                              read_result)
          IN /\ thr' = [thr EXCEPT ![t] =
                           AfterSend([@ EXCEPT
                               !.line_buffer = h.line_buffer,
                               !.pending = h.events,
                               !.brk = h.brk,
                               !.last = ResultName(read_result)])]
             /\ reads' = IF read_result = Ok(<<>>) THEN reads ELSE reads + 1
             /\ script' = IF read_result = Ok(<<>>) \/ script = NoScript
                          THEN script
                          ELSE Append(script, read_result)
    /\ UNCHANGED <<ports, reader_handles, stop_flags, port_modes, queue, flag,
                   mgr, delivered, produced>>

\* port_arc.lock(), port.read(&mut read_buffer), unlock; match read_result:
\* one step where nothing else takes the lock of the port
ReaderRead(t, results) == ReaderReadAt(t, results, "read")

\* tx.send(event): one send of the iteration's events, in order
ReaderSend(t) ==
    /\ thr[t].st = "run"
    /\ thr[t].pc = "send"
    /\ queue' = Append(queue, Head(thr[t].pending))
    /\ produced' = Append(produced, [tid |-> t, ev |-> Head(thr[t].pending)])
    /\ thr' = [thr EXCEPT ![t] = AfterSend([@ EXCEPT !.pending = Tail(@)])]
    /\ UNCHANGED <<ports, reader_handles, stop_flags, port_modes, flag, mgr,
                   delivered, reads>>

----------------------------------------------------------------------------
\* The manager's calls. &mut self: one call at a time; the reader threads run
\* during a call, which matters where the call blocks (handle.join()).

\* the four maps and the flags they point to
Reg ==
    [ports |-> ports, reader_handles |-> reader_handles,
     stop_flags |-> stop_flags, port_modes |-> port_modes, flag |-> flag]

SetReg(R) ==
    /\ ports' = R.ports
    /\ reader_handles' = R.reader_handles
    /\ stop_flags' = R.stop_flags
    /\ port_modes' = R.port_modes
    /\ flag' = R.flag

\* no call in progress. A call in progress has the fields of its frame;
\* `outer` holds the poll_events calls that are inside an emit_signal below
\* it (the handlers of the host call the manager from there), the innermost
\* first, and `calls` counts the calls the handlers have made.
Idle ==
    [pc |-> "idle", op |-> "none", name |-> "", tid |-> 0, mode |-> 0,
     ok |-> FALSE, events |-> <<>>, out |-> <<>>, calls |-> 0, outer |-> <<>>]

\* the host can call the manager: from its main loop, or from a handler of a
\* signal that poll_events is emitting (self.base_mut().emit_signal)
Callable ==
    \/ mgr.pc = "idle"
    \/ mgr.pc = "emit" /\ mgr.calls < MaxHandlerCalls

\* the frame of a call that begins now
Called ==
    IF mgr.pc = "idle"
    THEN Idle
    ELSE [Idle EXCEPT !.calls = mgr.calls + 1,
                      !.outer = <<[events |-> mgr.events, out |-> mgr.out]>>
                                   \o mgr.outer]

\* where the manager is when the call of frame m has returned: in the
\* emit_signal the call was made from, or in no call
Returned(m) ==
    IF m.outer = <<>>
    THEN Idle
    ELSE [Idle EXCEPT !.pc = "emit", !.op = "poll",
                      !.events = Head(m.outer).events,
                      !.out = Head(m.outer).out,
                      !.calls = m.calls,
                      !.outer = Tail(m.outer)]

\* close_port: if let Some(flag) = flags.remove(&name) { flag.store(true) }
CloseSignalNoStore(R, name) == [R EXCEPT !.stop_flags[name] = 0]
CloseSignal(R, name) ==
    IF R.stop_flags[name] # 0
    THEN [R EXCEPT !.flag[R.stop_flags[name]] = TRUE, !.stop_flags[name] = 0]
    ELSE R

\* close_port: handles.remove(&name)
CloseTake(R, name) == [R EXCEPT !.reader_handles[name] = 0]

\* close_port: ports.remove(&name); modes.remove(&name)
CloseMapsKeepsPort(R, name) == [R EXCEPT !.port_modes[name] = NoMode]
CloseMaps(R, name) ==
    [R EXCEPT !.ports[name] = 0, !.port_modes[name] = NoMode]

\* handle.join() returns once the thread has exited
ThreadExitedNoWait(t) == TRUE
ThreadExited(t) == thr[t].st = "done"

\* the threads spawned so far
Spawned == {t \in Tids : thr[t].st # "unborn"}

\* open_port after close_port, the transport acquired: the Ok(port) arm
OpenInsert(R, name, mode, tid) ==
    [R EXCEPT !.ports[name] = tid,
              !.stop_flags[name] = tid,
              !.flag[tid] = FALSE,
              !.port_modes[name] = ModeOfInt(mode),
              !.reader_handles[name] = tid]

\* open_port after close_port: match builder.open()
OpenRestModeFirst(R, name, mode, ok) ==
    IF ok
    THEN LET tid == Cardinality(Spawned) + 1
         IN /\ SetReg(OpenInsert(R, name, mode, tid))
            /\ thr' = [thr EXCEPT ![tid] = NewThread(name, ModeOfInt(mode))]
    ELSE /\ SetReg([R EXCEPT !.port_modes[name] = ModeOfInt(mode)])
         /\ UNCHANGED thr
OpenRest(R, name, mode, ok) ==
    IF ok
    THEN LET tid == Cardinality(Spawned) + 1
         IN /\ SetReg(OpenInsert(R, name, mode, tid))
            /\ thr' = [thr EXCEPT ![tid] = NewThread(name, ModeOfInt(mode))]
    ELSE /\ SetReg(R)
         /\ UNCHANGED thr

\* poll_events: loop { match rx.try_recv() { Ok(ev) => events.push(ev), _ => break } }
DrainDropsLast(q) ==
    [events |-> IF q = <<>> THEN <<>> ELSE SubSeq(q, 1, Len(q) - 1), rest |-> <<>>]
Drain(q) == [events |-> q, rest |-> <<>>]

\* poll_events when an event is done with: the emit_signal of the next event,
\* or the return of `out`
PollContinue(R, events, out) ==
    /\ SetReg(R)
    /\ IF events = <<>>
       THEN /\ mgr' = Returned(mgr)
            /\ delivered' = delivered \o out
       ELSE /\ mgr' = [mgr EXCEPT !.pc = "emit", !.name = "", !.tid = 0,
                                  !.events = events, !.out = out]
            /\ UNCHANGED delivered

\* close_port(port_name) up to its join
close_port_detaches(name) ==
    /\ Callable
    /\ SetReg(CloseMaps(CloseTake(CloseSignal(Reg, name), name), name))
    /\ mgr' = Returned(Called)
    /\ UNCHANGED <<queue, thr, delivered, produced, reads>>
close_port(name) ==
    /\ Callable
    /\ LET R1 == CloseSignal(Reg, name)
           h == R1.reader_handles[name]
           R2 == CloseTake(R1, name)
       IN IF h # 0
          THEN /\ SetReg(R2)
               /\ mgr' = [Called EXCEPT !.pc = "join", !.op = "close",
                                        !.name = name, !.tid = h]
          ELSE /\ SetReg(CloseMaps(R2, name))
               /\ mgr' = Returned(Called)
    /\ UNCHANGED <<queue, thr, delivered, produced, reads>>

\* what builder.open() may return while fewer than n threads were spawned
OkArgs(n) == IF Cardinality(Spawned) < n THEN BOOLEAN ELSE {FALSE}

\* open_port(port_name, baud_rate, timeout_ms, mode); ok: builder.open() succeeds
open_port(name, mode, ok) ==
    /\ Callable
    /\ ok => Cardinality(Spawned) < MaxThreads
    /\ LET R1 == CloseSignal(Reg, name)
           h == R1.reader_handles[name]
           R2 == CloseTake(R1, name)
       IN IF h # 0
          THEN /\ SetReg(R2)
               /\ mgr' = [Called EXCEPT !.pc = "join", !.op = "open",
                                        !.name = name, !.tid = h,
                                        !.mode = mode, !.ok = ok]
               /\ UNCHANGED thr
          ELSE /\ OpenRest(CloseMaps(R2, name), name, mode, ok)
               /\ mgr' = Returned(Called)
    /\ UNCHANGED <<queue, delivered, produced, reads>>

\* set_delimiter(port_name, delimiter)
set_delimiter_inserts(name, delimiter) ==
    /\ Callable
    /\ port_modes' = [port_modes EXCEPT
                         ![name] = CustomDelimiter(AsU8(delimiter))]
    /\ mgr' = Returned(Called)
    /\ UNCHANGED <<ports, reader_handles, stop_flags, queue, flag, thr,
                   delivered, produced, reads>>
set_delimiter(name, delimiter) ==
    /\ Callable
    /\ port_modes' = IF port_modes[name] # NoMode
                     THEN [port_modes EXCEPT
                              ![name] = CustomDelimiter(AsU8(delimiter))]
                     ELSE port_modes
    /\ mgr' = Returned(Called)
    /\ UNCHANGED <<ports, reader_handles, stop_flags, queue, flag, thr,
                   delivered, produced, reads>>

\* poll_events(): the try_recv loop under the rx lock, to the emit_signal of
\* the first event. The lock is released before the for loop. With no event
\* taken the for loop has no iteration and the call returns the empty `out`.
poll_events ==
    /\ Callable
    /\ LET d == Drain(queue)
       IN /\ queue' = d.rest
          /\ mgr' = IF d.events = <<>>
                    THEN Returned(Called)
                    ELSE [Called EXCEPT !.pc = "emit", !.op = "poll",
                                       !.events = d.events]
    /\ UNCHANGED <<ports, reader_handles, stop_flags, port_modes, flag, thr,
                   delivered, produced, reads>>

\* poll_events: one iteration of for ev in events, from the return of
\* emit_signal (the handlers of the host have run, and have made their calls
\* on the manager): out.push, and for a Disconnected event close_port up to
\* its join; then the emit_signal of the next event, or the return
PollEmit ==
    /\ mgr.pc = "emit"
    /\ LET ev == Head(mgr.events)
           out == Append(mgr.out, ev)
           R1 == CloseSignal(Reg, ev.port)
           h == R1.reader_handles[ev.port]
           R2 == CloseTake(R1, ev.port)
       IN IF ev.kind = "Data"
          THEN PollContinue(Reg, Tail(mgr.events), out)
          ELSE IF h # 0
          THEN /\ SetReg(R2)
               /\ mgr' = [mgr EXCEPT !.pc = "join", !.name = ev.port,
                                     !.tid = h, !.events = Tail(mgr.events),
                                     !.out = out]
               /\ UNCHANGED delivered
          ELSE PollContinue(CloseMaps(R2, ev.port), Tail(mgr.events), out)
    /\ UNCHANGED <<queue, thr, produced, reads>>

\* handle.join() returns: the rest of close_port, then of the call it is part of
JoinReturn ==
    /\ mgr.pc = "join"
    /\ ThreadExited(mgr.tid)
    /\ LET R3 == CloseMaps(Reg, mgr.name)
       IN \/ /\ mgr.op = "close"
             /\ SetReg(R3)
             /\ mgr' = Returned(mgr)
             /\ UNCHANGED <<thr, delivered>>
          \/ /\ mgr.op = "open"
             /\ OpenRest(R3, mgr.name, mgr.mode, mgr.ok)
             /\ mgr' = Returned(mgr)
             /\ UNCHANGED delivered
          \/ /\ mgr.op = "poll"
             /\ PollContinue(R3, mgr.events, mgr.out)
             /\ UNCHANGED thr
    /\ UNCHANGED <<queue, produced, reads>>

\* is_open(port_name)
is_open(name) == ports[name] # 0

----------------------------------------------------------------------------
\* GdSerial: one port, owned by the object; its calls run one at a time
\* (&mut self), each to its end.

\* a serialport::Error: NoDevice, InvalidInput, Unknown, or Io(io::ErrorKind)
SerialError(kind) == [kind |-> kind, io |-> "None"]
SerialIo(io_kind) == [kind |-> "Io", io |-> io_kind]
\* an io::Error
IoError(io_kind) == [kind |-> "io::Error", io |-> io_kind]
NoError == [kind |-> "None", io |-> "None"]

\* the io::ErrorKind values the calls on the port fail with
IoKinds ==
    {"TimedOut", "WouldBlock", "BrokenPipe", "ConnectionAborted",
     "NotConnected", "UnexpectedEof", "PermissionDenied", "Other"}

\* the result of a call on the port that returns bytes or nothing
SOk(val) == [ok |-> TRUE, val |-> val, err |-> NoError]
SErr(err) == [ok |-> FALSE, val |-> <<>>, err |-> err]
\* the result of port.bytes_to_read()
QOk(n) == [ok |-> TRUE, val |-> n, err |-> NoError]
QErr(err) == [ok |-> FALSE, val |-> 0, err |-> err]

\* fn is_io_disconnection_error(error: &io::Error) -> bool
is_io_disconnection_error_noPipe(error) ==
    error.io \in {"ConnectionAborted", "NotConnected", "UnexpectedEof",
                  "PermissionDenied"}
is_io_disconnection_error(error) ==
    error.io \in {"BrokenPipe", "ConnectionAborted", "NotConnected",
                  "UnexpectedEof", "PermissionDenied"}

\* fn is_disconnection_error(error: &serialport::Error) -> bool
is_disconnection_error(error) ==
    IF error.kind = "NoDevice" THEN TRUE
    ELSE IF error.kind = "Io"
    THEN error.io \in {"BrokenPipe", "ConnectionAborted", "NotConnected",
                       "UnexpectedEof", "PermissionDenied"}
    ELSE FALSE

\* impl IRefCounted for GdSerial: fn init; no call made yet
\* op, arg, ret, data, n, calls: the last call on the GdSerial, its numeric
\* argument, what it returned and the calls it made on the port
GdSerialInit ==
    [port |-> "None", is_connected |-> FALSE, port_name |-> "",
     baud_rate |-> 9600, data_bits |-> "Eight", stop_bits |-> "One",
     flow_control |-> "None", parity |-> "None", timeout |-> 1000,
     op |-> "init", arg |-> 0, ret |-> FALSE, data |-> <<>>, n |-> 0,
     calls |-> <<>>]

\* self.port = None; self.is_connected = false
TearDown(s) == [s EXCEPT !.port = "None", !.is_connected = FALSE]

\* fn handle_potential_disconnection(&mut self, error: &serialport::Error)
handle_potential_disconnection(s, error) ==
    IF is_disconnection_error(error) THEN TearDown(s) ELSE s

\* fn handle_potential_io_disconnection(&mut self, error: &io::Error)
handle_potential_io_disconnection_always(s, error) == TearDown(s)
handle_potential_io_disconnection(s, error) ==
    IF is_io_disconnection_error(error) THEN TearDown(s) ELSE s

\* a call made on the port, and how it ended: the bytes it read, or the
\* count it returned
Call(name, result) ==
    [call |-> name, ok |-> result.ok, err |-> result.err,
     val |-> IF name = "bytes_to_read" THEN <<result.val>> ELSE result.val]

\* a GdSerial call begins: nothing returned, no call on the port yet
Begin(s, op) ==
    [s EXCEPT !.op = op, !.arg = 0, !.ret = FALSE, !.data = <<>>, !.n = 0,
              !.calls = <<>>]

\* fn test_connection(&mut self) -> bool; q: what port.bytes_to_read() returns
test_connection_ignoresError(s, q) ==
    IF s.port = "None"
    THEN [s EXCEPT !.ret = FALSE]
    ELSE [s EXCEPT !.calls = Append(@, Call("bytes_to_read", q)), !.ret = TRUE]
test_connection(s, q) ==
    IF s.port = "None"
    THEN [s EXCEPT !.ret = FALSE]
    ELSE LET c == [s EXCEPT !.calls = Append(@, Call("bytes_to_read", q))]
             connected == q.ok
         IN IF connected
            THEN [c EXCEPT !.ret = TRUE]
            ELSE [TearDown(c) EXCEPT !.ret = FALSE]

\* pub fn open(&mut self) -> bool; ok: builder.open() succeeds
open(s0, ok) ==
    LET s == Begin(s0, "open")
    IN IF s.port_name = ""
       THEN [s EXCEPT !.ret = FALSE]
       ELSE IF ok
       THEN [s EXCEPT !.port = "Some", !.is_connected = TRUE, !.ret = TRUE]
       ELSE [s EXCEPT !.is_connected = FALSE, !.ret = FALSE]

\* pub fn close(&mut self)
close(s0) ==
    LET s == Begin(s0, "close")
    IN IF s.port # "None" THEN TearDown(s) ELSE s

\* pub fn set_port(&mut self, port_name: GString)
set_port(s0, port_name) == [Begin(s0, "set_port") EXCEPT !.port_name = port_name]

\* a setter begins: the call and its argument
BeginSet(s0, op, arg) == [Begin(s0, op) EXCEPT !.arg = arg]

\* pub fn set_baud_rate(&mut self, baud_rate: u32)
set_baud_rate(s0, baud_rate) ==
    [BeginSet(s0, "set_baud_rate", baud_rate) EXCEPT !.baud_rate = baud_rate]

\* pub fn set_data_bits(&mut self, data_bits: u8)
set_data_bits_orEight(s0, data_bits) ==
    LET s == BeginSet(s0, "set_data_bits", data_bits)
    IN IF data_bits = 6 THEN [s EXCEPT !.data_bits = "Six"]
       ELSE IF data_bits = 7 THEN [s EXCEPT !.data_bits = "Seven"]
       ELSE [s EXCEPT !.data_bits = "Eight"]
set_data_bits(s0, data_bits) ==
    LET s == BeginSet(s0, "set_data_bits", data_bits)
    IN IF data_bits = 6 THEN [s EXCEPT !.data_bits = "Six"]
       ELSE IF data_bits = 7 THEN [s EXCEPT !.data_bits = "Seven"]
       ELSE IF data_bits = 8 THEN [s EXCEPT !.data_bits = "Eight"]
       ELSE s

\* pub fn set_parity(&mut self, parity: i32)
set_parity(s0, parity) ==
    LET s == BeginSet(s0, "set_parity", parity)
    IN IF parity = 1 THEN [s EXCEPT !.parity = "Odd"]
       ELSE IF parity = 2 THEN [s EXCEPT !.parity = "Even"]
       ELSE [s EXCEPT !.parity = "None"]

\* pub fn set_stop_bits(&mut self, stop_bits: u8)
set_stop_bits(s0, stop_bits) ==
    LET s == BeginSet(s0, "set_stop_bits", stop_bits)
    IN IF stop_bits = 1 THEN [s EXCEPT !.stop_bits = "One"]
       ELSE IF stop_bits = 2 THEN [s EXCEPT !.stop_bits = "Two"]
       ELSE s

\* pub fn set_flow_control(&mut self, flow_control: u8)
set_flow_control(s0, flow_control) ==
    LET s == BeginSet(s0, "set_flow_control", flow_control)
    IN IF flow_control = 0 THEN [s EXCEPT !.flow_control = "None"]
       ELSE IF flow_control = 1 THEN [s EXCEPT !.flow_control = "Software"]
       ELSE IF flow_control = 2 THEN [s EXCEPT !.flow_control = "Hardware"]
       ELSE s

\* pub fn set_timeout(&mut self, timeout_ms: u32)
set_timeout(s0, timeout_ms) ==
    [BeginSet(s0, "set_timeout", timeout_ms) EXCEPT !.timeout = timeout_ms]

\* pub fn is_open(&mut self) -> bool   (GdSerial)
GdSerial_is_open(s0, q) ==
    LET s == Begin(s0, "is_open")
    IN IF s.port # "None" THEN test_connection(s, q) ELSE [s EXCEPT !.ret = FALSE]

\* pub fn write(&mut self, data: PackedByteArray) -> bool; w, f: what
\* port.write_all(&bytes) and port.flush() return
write(s0, q, w, f) ==
    LET s == test_connection(Begin(s0, "write"), q)
    IN IF ~s.ret THEN s
       ELSE IF s.port = "None" THEN [s EXCEPT !.ret = FALSE]
       ELSE LET s1 == [s EXCEPT !.calls = Append(@, Call("write_all", w))]
            IN IF ~w.ok
               THEN [handle_potential_io_disconnection(s1, w.err)
                        EXCEPT !.ret = FALSE]
               ELSE LET s2 == [s1 EXCEPT !.calls = Append(@, Call("flush", f))]
                    IN IF f.ok
                       THEN [s2 EXCEPT !.ret = TRUE]
                       ELSE [handle_potential_io_disconnection(s2, f.err)
                                EXCEPT !.ret = FALSE]

\* pub fn write_string(&mut self, data: GString) -> bool: write() of the
\* bytes of the string
write_string(s0, q, w, f) == [write(s0, q, w, f) EXCEPT !.op = "write_string"]

\* pub fn writeline(&mut self, data: GString) -> bool: write() of the bytes
\* of the string and of a '\n'
writeline(s0, q, w, f) == [write(s0, q, w, f) EXCEPT !.op = "writeline"]

\* pub fn read(&mut self, size: u32) -> PackedByteArray; r: what
\* port.read(&mut buffer) returns
read(s0, q, r) ==
    LET s == test_connection(Begin(s0, "read"), q)
    IN IF ~s.ret THEN s
       ELSE IF s.port = "None" THEN [s EXCEPT !.ret = FALSE]
       ELSE LET s1 == [s EXCEPT !.calls = Append(@, Call("read", r)),
                               !.ret = FALSE]
            IN IF r.ok
               THEN [s1 EXCEPT !.data = r.val]
               ELSE IF r.err.io # "TimedOut" /\ r.err.io # "WouldBlock"
               THEN handle_potential_io_disconnection(s1, r.err)
               ELSE s1

\* the Err(e) arm of the loop of readline for an error that is not TimedOut:
\* tear down on a disconnection; an empty line and an error other than
\* WouldBlock return the empty string, anything else breaks with the line
ReadLineError_dropsLine(s1, line, r, rest) ==
    LET s2 == IF is_io_disconnection_error(r.err)
              THEN handle_potential_io_disconnection(s1, r.err)
              ELSE s1
    IN [s |-> s2, line |-> <<>>, rest |-> rest, ended |-> TRUE]
ReadLineError(s1, line, r, rest) ==
    LET s2 == IF is_io_disconnection_error(r.err)
              THEN handle_potential_io_disconnection(s1, r.err)
              ELSE s1
    IN IF line = <<>> /\ r.err.io # "WouldBlock"
       THEN [s |-> s2, line |-> <<>>, rest |-> rest, ended |-> TRUE]
       ELSE [s |-> s2, line |-> line, rest |-> rest, ended |-> TRUE]

\* String::from_utf8(bytes).is_ok(): each character is one byte below 0x80,
\* or a lead byte 0xC2..0xF4 and its one to three continuation bytes, with
\* no overlong form, no surrogate and nothing above U+10FFFF
RECURSIVE IsUtf8(_)
IsUtf8(bytes) ==
    IF bytes = <<>> THEN TRUE
    ELSE LET b == bytes[1]
             n == IF b < 128 THEN 1
                  ELSE IF b >= 194 /\ b <= 223 THEN 2
                  ELSE IF b >= 224 /\ b <= 239 THEN 3
                  ELSE IF b >= 240 /\ b <= 244 THEN 4
                  ELSE 0
             lo == IF b = 224 THEN 160 ELSE IF b = 240 THEN 144 ELSE 128
             hi == IF b = 237 THEN 159 ELSE IF b = 244 THEN 143 ELSE 191
         IN /\ n # 0
            /\ Len(bytes) >= n
            /\ n >= 2 => bytes[2] >= lo /\ bytes[2] <= hi
            /\ \A i \in 3..n : bytes[i] >= 128 /\ bytes[i] <= 191
            /\ IsUtf8(SubSeq(bytes, n + 1, Len(bytes)))

\* pub fn read_string(&mut self, size: u32) -> GString
read_string(s0, q, r) ==
    LET s == read(s0, q, r)
    IN [s EXCEPT !.op = "read_string",
                 !.data = IF IsUtf8(s.data) THEN s.data ELSE <<>>]

\* readline: loop { match port.read(&mut byte) { ... } }; rs: what the reads
\* return, in order; gives the line at the break (or the empty string of the
\* return inside the loop), the reads not made, and whether the loop has
\* ended: it has not when rs runs out first and the code would read again
RECURSIVE ReadLineLoop(_, _, _)
ReadLineLoop(s, line, rs) ==
    IF rs = <<>>
    THEN [s |-> s, line |-> line, rest |-> rs, ended |-> FALSE]
    ELSE LET r == Head(rs)
             s1 == [s EXCEPT !.calls = Append(@, Call("read", r))]
             break == [s |-> s1, line |-> line, rest |-> Tail(rs),
                       ended |-> TRUE]
         IN IF r.ok /\ r.val = <<>> THEN break
            ELSE IF r.ok
            THEN LET ch == r.val[1]
                 IN IF ch = LF THEN break
                    ELSE IF ch # CR
                    THEN ReadLineLoop(s1, Append(line, ch), Tail(rs))
                    ELSE ReadLineLoop(s1, line, Tail(rs))
            ELSE IF r.err.io = "TimedOut" THEN break
            ELSE ReadLineError(s1, line, r, Tail(rs))

\* pub fn readline(&mut self) -> GString
readline(s0, q, rs) ==
    LET s == test_connection(Begin(s0, "readline"), q)
    IN IF ~s.ret THEN s
       ELSE IF s.port = "None" THEN [s EXCEPT !.ret = FALSE]
       ELSE LET l == ReadLineLoop([s EXCEPT !.ret = FALSE], <<>>, rs)
            IN [l.s EXCEPT !.data = l.line]

\* pub fn bytes_available(&mut self) -> u32; q2: the second bytes_to_read()
bytes_available(s0, q, q2) ==
    LET s == test_connection(Begin(s0, "bytes_available"), q)
    IN IF ~s.ret THEN s
       ELSE IF s.port = "None" THEN [s EXCEPT !.ret = FALSE]
       ELSE LET s1 == [s EXCEPT !.calls = Append(@, Call("bytes_to_read", q2)),
                               !.ret = FALSE]
            IN IF q2.ok THEN [s1 EXCEPT !.n = q2.val] ELSE TearDown(s1)

\* pub fn clear_buffer(&mut self) -> bool; c: what port.clear(All) returns
clear_buffer(s0, q, c) ==
    LET s == test_connection(Begin(s0, "clear_buffer"), q)
    IN IF ~s.ret THEN s
       ELSE IF s.port = "None" THEN [s EXCEPT !.ret = FALSE]
       ELSE LET s1 == [s EXCEPT !.calls = Append(@, Call("clear", c))]
            IN IF c.ok
               THEN [s1 EXCEPT !.ret = TRUE]
               ELSE [handle_potential_disconnection(s1, c.err)
                        EXCEPT !.ret = FALSE]

\* what the calls on the port may return
SerialErrors ==
    {SerialError(k) : k \in {"NoDevice", "InvalidInput", "Unknown"}}
        \cup {SerialIo(k) : k \in IoKinds}
QueryResults == {QOk(0), QOk(3)} \cup {QErr(e) : e \in SerialErrors}
IoResults == {SOk(<<>>)} \cup {SErr(IoError(k)) : k \in IoKinds}
ClearResults == {SOk(<<>>)} \cup {SErr(e) : e \in SerialErrors}
\* read(size): nothing, "h", "hi", and two bytes that are not UTF-8
SerReadResults ==
    {SOk(<<>>), SOk(<<104>>), SOk(<<104, 105>>), SOk(<<255, 254>>)}
        \cup {SErr(IoError(k)) : k \in IoKinds}
\* readline reads one byte at a time: nothing, 'h', '\r', '\n', or an error
ByteReads ==
    {SOk(<<>>), SOk(<<104>>), SOk(<<CR>>), SOk(<<LF>>)}
        \cup {SErr(IoError(k)) :
                 k \in {"TimedOut", "WouldBlock", "BrokenPipe", "Other"}}
\* the reads of one readline: the last one ends the loop
ScriptsOf(byte_reads, bound) ==
    {rs \in UNION {[1..n -> byte_reads] : n \in 1..bound} :
        LET l == ReadLineLoop(GdSerialInit, <<>>, rs)
            m == ReadLineLoop(GdSerialInit, <<>>, SubSeq(rs, 1, Len(rs) - 1))
        IN l.ended /\ l.rest = <<>> /\ ~m.ended}
ByteReadScripts == ScriptsOf(ByteReads, MaxLineReads)

\* the names set_port is called with
PortNames == {"", "COM3"}

\* the calls of the host on the GdSerial, each with what the port returns in it
DoSetPort ==
    \E name \in PortNames : ser' = set_port(ser, name)
DoOpen ==
    \E ok \in BOOLEAN : ser' = open(ser, ok)
DoClose ==
    ser' = close(ser)
DoIsOpen ==
    \E q \in QueryResults : ser' = GdSerial_is_open(ser, q)
DoWrite ==
    \E q \in QueryResults, w \in IoResults, f \in IoResults :
       ser' = write(ser, q, w, f)
DoWriteString ==
    \E q \in QueryResults, w \in IoResults, f \in IoResults :
       ser' = write_string(ser, q, w, f)
DoWriteline ==
    \E q \in QueryResults, w \in IoResults, f \in IoResults :
       ser' = writeline(ser, q, w, f)
DoRead ==
    \E q \in QueryResults, r \in SerReadResults : ser' = read(ser, q, r)
DoReadString ==
    \E q \in QueryResults, r \in SerReadResults : ser' = read_string(ser, q, r)
DoReadline ==
    \E q \in QueryResults, rs \in ByteReadScripts : ser' = readline(ser, q, rs)
DoBytesAvailable ==
    \E q \in QueryResults, q2 \in QueryResults :
       ser' = bytes_available(ser, q, q2)
DoClearBuffer ==
    \E q \in QueryResults, c \in ClearResults : ser' = clear_buffer(ser, q, c)

----------------------------------------------------------------------------
\* Spec: the manager after init() and its reader threads.

MInit ==
    /\ ports = [n \in Ids |-> 0]
    /\ reader_handles = [n \in Ids |-> 0]
    /\ stop_flags = [n \in Ids |-> 0]
    /\ port_modes = [n \in Ids |-> NoMode]
    /\ queue = <<>>
    /\ flag = [t \in Tids |-> FALSE]
    /\ thr = [t \in Tids |-> Unborn]
    /\ mgr = Idle
    /\ delivered = <<>>
    /\ produced = <<>>
    /\ reads = 0

Init ==
    /\ MInit
    /\ script = NoScript
    /\ lock = [t \in Tids |-> "free"]
    /\ ser = GdSerialInit

\* the mode arguments the host passes
ModeArgs == {0, 1}
\* the mode argument the host passes where the framing is not looked at: Raw
LockModeArgs == {0}

\* Spec: every open_port asks for Raw mode and finds its device (the ones that
\* fail are in SpecFair, SpecCancel, SpecRegistry and SpecWait, the other
\* buffering modes in SpecCancel and SpecFraming)
Next ==
    \/ \E t \in Tids : ReaderCheck(t) /\ UNCHANGED <<script, lock, ser>>
    \/ \E t \in Tids : ReaderRead(t, ReadResults(Chunks, MaxReads))
          /\ UNCHANGED <<lock, ser>>
    \/ \E t \in Tids : ReaderSend(t) /\ UNCHANGED <<script, lock, ser>>
    \/ \E name \in Ids, mode \in LockModeArgs, ok \in OkArgs(MaxSpawns) \ {FALSE} :
          open_port(name, mode, ok) /\ UNCHANGED <<script, lock, ser>>
    \/ \E name \in Ids : close_port(name) /\ UNCHANGED <<script, lock, ser>>
    \/ poll_events /\ UNCHANGED <<script, lock, ser>>
    \/ PollEmit /\ UNCHANGED <<script, lock, ser>>
    \/ JoinReturn /\ UNCHANGED <<script, lock, ser>>

Spec == Init /\ [][Next]_vars

\* a step of reader thread t, in SpecFair
ReaderStep(t) ==
    \/ ReaderCheck(t) /\ UNCHANGED <<script, lock, ser>>
    \/ ReaderRead(t, ReadResults(Chunks, MaxFairReads))
          /\ UNCHANGED <<lock, ser>>
    \/ ReaderSend(t) /\ UNCHANGED <<script, lock, ser>>

FairNext ==
    \/ \E t \in Tids : ReaderStep(t)
    \/ \E name \in Ids, mode \in LockModeArgs, ok \in OkArgs(MaxSpawns) :
          open_port(name, mode, ok) /\ UNCHANGED <<script, lock, ser>>
    \/ \E name \in Ids : close_port(name) /\ UNCHANGED <<script, lock, ser>>
    \/ poll_events /\ UNCHANGED <<script, lock, ser>>
    \/ PollEmit /\ UNCHANGED <<script, lock, ser>>
    \/ JoinReturn /\ UNCHANGED <<script, lock, ser>>

\* SpecFair: the manager and its reader threads as in Spec, where a reader
\* thread that can take a step does (the threads are scheduled; read returns
\* within its timeout, send never blocks) and a join returns once its thread
\* has exited.
SpecFair ==
    /\ Init
    /\ [][FairNext]_vars
    /\ \A t \in Tids : WF_vars(ReaderStep(t))
    /\ WF_vars(JoinReturn /\ UNCHANGED <<script, lock, ser>>)

----------------------------------------------------------------------------
\* SpecFraming: the manager right after open_port("a", _, _, mode) succeeded
\* on a fresh manager, then the reader thread of "a" and set_delimiter.

EmptyReg ==
    [ports |-> [n \in Ids |-> 0], reader_handles |-> [n \in Ids |-> 0],
     stop_flags |-> [n \in Ids |-> 0], port_modes |-> [n \in Ids |-> NoMode],
     flag |-> [t \in Tids |-> FALSE]]

\* the mode arguments of open_port: 3 is none of the documented three
FramingModeArgs == {0, 1, 2, 3}
\* the delimiter arguments of set_delimiter: '|', and an i32 that is no byte
FramingDelimiterArgs == {124, 380}
\* the chunks a read of SpecFraming returns:
\* "ab", "c\n", "de", "x|y|z", "A", "B"
FramingChunks ==
    {<<97, 98>>, <<99, 10>>, <<100, 101>>, <<120, 124, 121, 124, 122>>,
     <<65>>, <<66>>}

FramingInit ==
    \E mode \in FramingModeArgs :
       LET R == OpenInsert(EmptyReg, "a", mode, 1)
       IN /\ ports = R.ports
          /\ reader_handles = R.reader_handles
          /\ stop_flags = R.stop_flags
          /\ port_modes = R.port_modes
          /\ flag = R.flag
          /\ thr = [t \in Tids |-> IF t = 1 THEN NewThread("a", ModeOfInt(mode))
                                   ELSE Unborn]
          /\ queue = <<>>
          /\ mgr = Idle
          /\ delivered = <<>>
          /\ produced = <<>>
          /\ reads = 0
          /\ script = <<>>
          /\ lock = [t \in Tids |-> "free"]
          /\ ser = GdSerialInit

FramingNext ==
    \/ \E t \in Tids : ReaderCheck(t) /\ UNCHANGED <<script, lock, ser>>
    \/ \E t \in Tids : ReaderRead(t, ReadResults(FramingChunks, MaxScript))
          /\ UNCHANGED <<lock, ser>>
    \/ \E t \in Tids : ReaderSend(t) /\ UNCHANGED <<script, lock, ser>>
    \/ \E name \in Ids, d \in FramingDelimiterArgs :
          set_delimiter(name, d) /\ UNCHANGED <<script, lock, ser>>

SpecFraming == FramingInit /\ [][FramingNext]_vars

-----------------------------------------------------------------------------
\* SpecStop: the manager right after open_port("a", _, _, mode) succeeded on a
\* fresh manager, then the reader thread of "a" and close_port: the two ways
\* the thread stops, the reads it made on record.
StopNext ==
    \/ \E t \in Tids : ReaderCheck(t) /\ UNCHANGED <<script, lock, ser>>
    \/ \E t \in Tids : ReaderRead(t, ReadResults(FramingChunks, MaxReads))
          /\ UNCHANGED <<lock, ser>>
    \/ \E t \in Tids : ReaderSend(t) /\ UNCHANGED <<script, lock, ser>>
    \/ \E name \in Ids : close_port(name) /\ UNCHANGED <<script, lock, ser>>
    \/ JoinReturn /\ UNCHANGED <<script, lock, ser>>

SpecStop == FramingInit /\ [][StopNext]_vars

----------------------------------------------------------------------------
\* SpecLock: the manager, its reader threads and the Mutex of each port, with
\* open_port, close_port, write_port and reconfigure_port; a step per lock()
\* and per call on the port. The events stay in the channel.

\* write_port: the calls on the port, in order
WriteCalls == <<"write_all", "flush">>
\* reconfigure_port: the calls on the port, in order
ReconfigureCalls ==
    <<"set_baud_rate", "set_timeout", "set_data_bits", "set_parity",
      "set_stop_bits", "set_flow_control">>
TransportCalls ==
    {WriteCalls[i] : i \in DOMAIN WriteCalls}
        \cup {ReconfigureCalls[i] : i \in DOMAIN ReconfigureCalls}

\* Mutex::lock() returns the guard once no one holds the lock
LockAcquirableAnyway(state) == state # "poisoned"
LockAcquirable(state) == state = "free"

\* match port_arc.lock() { Ok(mut port) => ..., Err(_) => return }
ReaderLock(t) ==
    /\ thr[t].st = "run"
    /\ thr[t].pc = "read"
    /\ \/ /\ LockAcquirable(lock[t])
          /\ lock' = [lock EXCEPT ![t] = "reader"]
          /\ thr' = [thr EXCEPT ![t].pc = "call"]
       \/ /\ lock[t] = "poisoned"
          /\ thr' = [thr EXCEPT ![t] = Exited(@)]
          /\ UNCHANGED lock
    /\ UNCHANGED <<ports, reader_handles, stop_flags, port_modes, queue, flag,
                   mgr, delivered, produced, reads, script>>

\* port.read(&mut read_buffer) returns, the guard is dropped; match read_result
ReaderCall(t) ==
    /\ ReaderReadAt(t, ReadResults(Chunks, MaxLockReads), "call")
    /\ lock' = [lock EXCEPT ![t] = "free"]

\* write_port, reconfigure_port: self.ports.lock().ok().and_then(|m| m.get(..))
ForegroundBegin(op, name) ==
    /\ Callable
    /\ mgr' = IF ports[name] = 0
              THEN Returned(Called)
              ELSE [Called EXCEPT !.pc = "lock", !.op = op, !.name = name,
                                  !.tid = ports[name], !.ok = TRUE]
    /\ UNCHANGED <<ports, reader_handles, stop_flags, port_modes, queue, flag,
                   thr, delivered, produced, reads, script, lock>>

\* write_port(port_name, data) up to port_arc.lock()
write_port(name) == ForegroundBegin("write", name)

\* reconfigure_port(port_name, ...) up to port_arc.lock()
reconfigure_port(name) == ForegroundBegin("reconfigure", name)

\* the calls of a foreground operation
CallsOf(op) == IF op = "write" THEN WriteCalls ELSE ReconfigureCalls

\* write_port, reconfigure_port: match port_arc.lock()
ForegroundLock ==
    /\ mgr.pc = "lock"
    /\ \/ /\ LockAcquirable(lock[mgr.tid])
          /\ lock' = [lock EXCEPT ![mgr.tid] = "manager"]
          /\ mgr' = [mgr EXCEPT !.pc = CallsOf(mgr.op)[1]]
       \/ /\ lock[mgr.tid] = "poisoned"
          /\ mgr' = Returned(mgr)
          /\ UNCHANGED lock
    /\ UNCHANGED <<ports, reader_handles, stop_flags, port_modes, queue, flag,
                   thr, delivered, produced, reads, script>>

\* where the operation goes after call number i returned r: the next call, or
\* "return" (the guard is dropped as the function returns)
AfterCall(op, i, r) ==
    IF op = "write"
    THEN IF i = 1 /\ r THEN WriteCalls[2] ELSE "return"
    ELSE IF i < Len(ReconfigureCalls) THEN ReconfigureCalls[i + 1] ELSE "return"

\* a call on the port returns r: Ok or Err
ForegroundCallKeepsLock ==
    /\ mgr.pc \in TransportCalls
    /\ \E r \in BOOLEAN :
          LET calls == CallsOf(mgr.op)
              i == CHOOSE k \in DOMAIN calls : calls[k] = mgr.pc
              to == AfterCall(mgr.op, i, r)
          IN IF to = "return"
             THEN mgr' = Returned(mgr)
             ELSE mgr' = [mgr EXCEPT !.pc = to, !.ok = mgr.ok /\ r]
    /\ UNCHANGED <<ports, reader_handles, stop_flags, port_modes, queue, flag,
                   thr, delivered, produced, reads, script, lock>>
ForegroundCall ==
    /\ mgr.pc \in TransportCalls
    /\ \E r \in BOOLEAN :
          LET calls == CallsOf(mgr.op)
              i == CHOOSE k \in DOMAIN calls : calls[k] = mgr.pc
              to == AfterCall(mgr.op, i, r)
          IN IF to = "return"
             THEN /\ mgr' = Returned(mgr)
                  /\ lock' = [lock EXCEPT ![mgr.tid] = "free"]
             ELSE /\ mgr' = [mgr EXCEPT !.pc = to, !.ok = mgr.ok /\ r]
                  /\ UNCHANGED lock
    /\ UNCHANGED <<ports, reader_handles, stop_flags, port_modes, queue, flag,
                   thr, delivered, produced, reads, script>>

\* a call on the port panics: the guard is dropped while unwinding, which
\* poisons the Mutex
ForegroundPanic ==
    /\ mgr.pc \in TransportCalls
    /\ mgr' = Returned(mgr)
    /\ lock' = [lock EXCEPT ![mgr.tid] = "poisoned"]
    /\ UNCHANGED <<ports, reader_handles, stop_flags, port_modes, queue, flag,
                   thr, delivered, produced, reads, script>>


LockNext ==
    \/ \E t \in Tids : ReaderCheck(t) /\ UNCHANGED <<script, lock, ser>>
    \/ \E t \in Tids : ReaderLock(t) /\ UNCHANGED ser
    \/ \E t \in Tids : ReaderCall(t) /\ UNCHANGED ser
    \/ \E t \in Tids : ReaderSend(t) /\ UNCHANGED <<script, lock, ser>>
    \/ \E name \in Ids, mode \in LockModeArgs, ok \in OkArgs(MaxSpawns) \ {FALSE} :
          open_port(name, mode, ok) /\ UNCHANGED <<script, lock, ser>>
    \/ \E name \in Ids : close_port(name) /\ UNCHANGED <<script, lock, ser>>
    \/ JoinReturn /\ UNCHANGED <<script, lock, ser>>
    \/ \E name \in Ids : write_port(name) /\ UNCHANGED ser
    \/ \E name \in Ids : reconfigure_port(name) /\ UNCHANGED ser
    \/ ForegroundLock /\ UNCHANGED ser
    \/ ForegroundCall /\ UNCHANGED ser
    \/ ForegroundPanic /\ UNCHANGED ser

SpecLock == Init /\ [][LockNext]_vars

-----------------------------------------------------------------------------
\* SpecRegistry: the five calls that are made on a GdSerialManager between its
\* reader threads' steps: open_port, close_port, set_delimiter, write_port and
\* poll_events.

\* the delimiter the host passes in SpecRegistry: '|'
RegistryDelimiterArgs == {124}

RegistryNext ==
    \/ \E t \in Tids : ReaderCheck(t) /\ UNCHANGED <<script, lock, ser>>
    \/ \E t \in Tids : ReaderLock(t) /\ UNCHANGED ser
    \/ \E t \in Tids : ReaderCall(t) /\ UNCHANGED ser
    \/ \E t \in Tids : ReaderSend(t) /\ UNCHANGED <<script, lock, ser>>
    \/ \E name \in Ids, mode \in LockModeArgs, ok \in OkArgs(MaxSpawns) :
          open_port(name, mode, ok) /\ UNCHANGED <<script, lock, ser>>
    \/ \E name \in Ids : close_port(name) /\ UNCHANGED <<script, lock, ser>>
    \/ \E name \in Ids, delimiter \in RegistryDelimiterArgs :
          set_delimiter(name, delimiter) /\ UNCHANGED <<script, lock, ser>>
    \/ \E name \in Ids : write_port(name) /\ UNCHANGED ser
    \/ ForegroundLock /\ UNCHANGED ser
    \/ ForegroundCall /\ UNCHANGED ser
    \/ poll_events /\ UNCHANGED <<script, lock, ser>>
    \/ PollEmit /\ UNCHANGED <<script, lock, ser>>
    \/ JoinReturn /\ UNCHANGED <<script, lock, ser>>

SpecRegistry == Init /\ [][RegistryNext]_vars

-----------------------------------------------------------------------------
\* SpecWait: the six calls of the host on one id and the reader threads that
\* open_port spawns for it, a step per lock() and per call on the port, where
\* whatever can go on does: a reader thread takes its steps, a call on the
\* port returns, a join returns once its thread has exited, and a lock that
\* is free again and again is obtained.

\* the id the host uses in SpecWait
WaitIds == {"a"}

\* a step of reader thread t other than taking the lock of its port
ReaderProgress(t) ==
    \/ ReaderCheck(t) /\ UNCHANGED <<script, lock, ser>>
    \/ ReaderCall(t) /\ UNCHANGED ser
    \/ ReaderSend(t) /\ UNCHANGED <<script, lock, ser>>

\* reader thread t at port_arc.lock()
ReaderAcquire(t) == ReaderLock(t) /\ UNCHANGED ser

\* the steps the manager takes inside a call
ManagerJoin == JoinReturn /\ UNCHANGED <<script, lock, ser>>
ManagerEmit == PollEmit /\ UNCHANGED <<script, lock, ser>>
ManagerAcquire == ForegroundLock /\ UNCHANGED ser
ManagerCall == ForegroundCall /\ UNCHANGED ser

WaitNext ==
    \/ \E t \in Tids : ReaderProgress(t)
    \/ \E t \in Tids : ReaderAcquire(t)
    \/ \E name \in WaitIds, mode \in LockModeArgs, ok \in OkArgs(MaxWaitSpawns) :
          open_port(name, mode, ok) /\ UNCHANGED <<script, lock, ser>>
    \/ \E name \in WaitIds :
          close_port(name) /\ UNCHANGED <<script, lock, ser>>
    \/ \E name \in WaitIds, delimiter \in RegistryDelimiterArgs :
          set_delimiter(name, delimiter) /\ UNCHANGED <<script, lock, ser>>
    \/ \E name \in WaitIds : write_port(name) /\ UNCHANGED ser
    \/ \E name \in WaitIds : reconfigure_port(name) /\ UNCHANGED ser
    \/ poll_events /\ UNCHANGED <<script, lock, ser>>
    \/ ManagerEmit
    \/ ManagerJoin
    \/ ManagerAcquire
    \/ ManagerCall
    \/ ForegroundPanic /\ UNCHANGED ser

SpecWait ==
    /\ Init
    /\ [][WaitNext]_vars
    /\ \A t \in 1..MaxWaitSpawns :
          WF_vars(ReaderProgress(t)) /\ SF_vars(ReaderAcquire(t))
    /\ WF_vars(ManagerJoin)
    /\ WF_vars(ManagerEmit)
    /\ SF_vars(ManagerAcquire)
    /\ WF_vars(ManagerCall)

----------------------------------------------------------------------------
\* SpecCancel: the manager of one device and the reader threads of its
\* successive openings, where a reader thread that can take a step does
CancelNext ==
    \/ \E t \in Tids : ReaderStep(t)
    \/ \E name \in WaitIds, mode \in ModeArgs, ok \in OkArgs(MaxSpawns) :
          open_port(name, mode, ok) /\ UNCHANGED <<script, lock, ser>>
    \/ \E name \in WaitIds :
          close_port(name) /\ UNCHANGED <<script, lock, ser>>
    \/ poll_events /\ UNCHANGED <<script, lock, ser>>
    \/ PollEmit /\ UNCHANGED <<script, lock, ser>>
    \/ JoinReturn /\ UNCHANGED <<script, lock, ser>>

SpecCancel ==
    /\ Init
    /\ [][CancelNext]_vars
    /\ \A t \in Tids : WF_vars(ReaderStep(t))

----------------------------------------------------------------------------
\* SpecReopen: the manager of one device and the reader threads of its
\* successive openings, MaxThreads of them: the host opens the device again
\* after each disconnection
ReopenNext ==
    \/ \E t \in Tids : ReaderCheck(t) /\ UNCHANGED <<script, lock, ser>>
    \/ \E t \in Tids : ReaderRead(t, ReadResults(Chunks, MaxReads))
          /\ UNCHANGED <<lock, ser>>
    \/ \E t \in Tids : ReaderSend(t) /\ UNCHANGED <<script, lock, ser>>
    \/ \E name \in WaitIds, mode \in LockModeArgs, ok \in OkArgs(MaxThreads) \ {FALSE} :
          open_port(name, mode, ok) /\ UNCHANGED <<script, lock, ser>>
    \/ \E name \in WaitIds :
          close_port(name) /\ UNCHANGED <<script, lock, ser>>
    \/ poll_events /\ UNCHANGED <<script, lock, ser>>
    \/ PollEmit /\ UNCHANGED <<script, lock, ser>>
    \/ JoinReturn /\ UNCHANGED <<script, lock, ser>>

SpecReopen == Init /\ [][ReopenNext]_vars

----------------------------------------------------------------------------
SessionNext ==
    \/ DoSetPort /\ UNCHANGED <<mvars, script, lock>>
    \/ DoOpen /\ UNCHANGED <<mvars, script, lock>>
    \/ DoClose /\ UNCHANGED <<mvars, script, lock>>
    \/ DoIsOpen /\ UNCHANGED <<mvars, script, lock>>
    \/ DoWrite /\ UNCHANGED <<mvars, script, lock>>
    \/ DoWriteString /\ UNCHANGED <<mvars, script, lock>>
    \/ DoWriteline /\ UNCHANGED <<mvars, script, lock>>
    \/ DoRead /\ UNCHANGED <<mvars, script, lock>>
    \/ DoReadString /\ UNCHANGED <<mvars, script, lock>>
    \/ DoReadline /\ UNCHANGED <<mvars, script, lock>>
    \/ DoBytesAvailable /\ UNCHANGED <<mvars, script, lock>>
    \/ DoClearBuffer /\ UNCHANGED <<mvars, script, lock>>

\* SpecSession: a GdSerial after init() and the calls of the host on it.
SpecSession == Init /\ [][SessionNext]_vars

-----------------------------------------------------------------------------
\* SpecLine: one call of readline() on a GdSerial, the port returning 'h',
\* 'e', 'l', '\r', '\n', nothing or an error on each read of one byte.
LineByteReads ==
    {SOk(<<>>), SOk(<<104>>), SOk(<<101>>), SOk(<<108>>), SOk(<<CR>>),
     SOk(<<LF>>)}
        \cup {SErr(IoError(k)) :
                 k \in {"TimedOut", "WouldBlock", "BrokenPipe", "Other"}}
LineReadScripts == ScriptsOf(LineByteReads, MaxLineBytes)

\* the GdSerial before the call: after init(), after set_port and a
\* successful open(), and after a further open() that failed
LineSessions ==
    LET opened == open(set_port(GdSerialInit, "COM3"), TRUE)
    IN {GdSerialInit, opened, open(opened, FALSE)}

LineInit ==
    /\ MInit
    /\ script = NoScript
    /\ lock = [t \in Tids |-> "free"]
    /\ ser \in LineSessions

LineNext ==
    /\ ser.op # "readline"
    /\ \E q \in QueryResults, rs \in LineReadScripts :
          ser' = readline(ser, q, rs)
    /\ UNCHANGED <<mvars, script, lock>>

SpecLine == LineInit /\ [][LineNext]_vars

-----------------------------------------------------------------------------
\* SpecConfig: the setters of a GdSerial, called with values in and out of
\* their domains.
BaudRateArgs == {9600, 115200}
DataBitsArgs == {0, 5, 6, 7, 8, 9, 255}
ParityArgs == {-1, 0, 1, 2, 3}
StopBitsArgs == {0, 1, 2, 3}
FlowControlArgs == {0, 1, 2, 3, 255}
TimeoutArgs == {0, 1000}

DoSetBaudRate ==
    \E baud_rate \in BaudRateArgs : ser' = set_baud_rate(ser, baud_rate)
DoSetDataBits ==
    \E data_bits \in DataBitsArgs : ser' = set_data_bits(ser, data_bits)
DoSetParity ==
    \E parity \in ParityArgs : ser' = set_parity(ser, parity)
DoSetStopBits ==
    \E stop_bits \in StopBitsArgs : ser' = set_stop_bits(ser, stop_bits)
DoSetFlowControl ==
    \E flow_control \in FlowControlArgs :
       ser' = set_flow_control(ser, flow_control)
DoSetTimeout ==
    \E timeout_ms \in TimeoutArgs : ser' = set_timeout(ser, timeout_ms)

ConfigNext ==
    \/ DoSetBaudRate /\ UNCHANGED <<mvars, script, lock>>
    \/ DoSetDataBits /\ UNCHANGED <<mvars, script, lock>>
    \/ DoSetParity /\ UNCHANGED <<mvars, script, lock>>
    \/ DoSetStopBits /\ UNCHANGED <<mvars, script, lock>>
    \/ DoSetFlowControl /\ UNCHANGED <<mvars, script, lock>>
    \/ DoSetTimeout /\ UNCHANGED <<mvars, script, lock>>

SpecConfig == Init /\ [][ConfigNext]_vars

----------------------------------------------------------------------------
\* Vocabulary of the properties.

Range(q) == {q[i] : i \in DOMAIN q}
\* a sequence as a bag
BagOfSeq(q) == [x \in Range(q) |-> Cardinality({i \in DOMAIN q : q[i] = x})]
\* the events of `produced`, without the thread that sent each
EvOf(h) == [i \in DOMAIN h |-> h[i].ev]
\* the events of one port, in order
EventsOfPort(name, q) == SelectSeq(q, LAMBDA e : e.port = name)
\* the reader threads alive for a port
Alive(name) == {t \in Tids : thr[t].st = "run" /\ thr[t].port = name}
\* every event received from the channel and returned or still to return,
\* then those still in the channel
RECURSIVE Taken(_)
Taken(frames) ==
    IF frames = <<>> THEN <<>>
    ELSE Head(frames).out \o Head(frames).events \o Taken(Tail(frames))
Received == delivered \o mgr.out \o mgr.events \o Taken(mgr.outer)
InOrder == Received \o queue


\* SpecFraming: the concatenation of a sequence of byte strings
RECURSIVE Flatten(_)
Flatten(qs) == IF qs = <<>> THEN <<>> ELSE Head(qs) \o Flatten(Tail(qs))
\* the payloads of the Data events of q, in order
Payloads(q) ==
    LET d == SelectSeq(q, LAMBDA e : e.kind = "Data")
    IN [i \in DOMAIN d |-> d[i].data]
\* SpecFraming: the chunks read so far, in order
ChunksRead ==
    LET r == SelectSeq(script, LAMBDA x : x.ok)
    IN [i \in DOMAIN r |-> r[i].data]
\* SpecFraming: the timeouts so far
Timeouts == {i \in DOMAIN script : script[i] = Err("TimedOut")}
\* SpecFraming: the messages reader thread t has sent or is about to send
Messages(t) == Payloads(queue \o thr[t].pending)
\* the places of byte b in q
Places(b, q) == {i \in DOMAIN q : q[i] = b}
\* SpecFraming: this step is a read of reader thread t that returned a chunk
ReadsChunk(t) ==
    /\ thr[t].st = "run"
    /\ thr[t].pc = "read"
    /\ Len(script') = Len(script) + 1
    /\ script'[Len(script')].ok
\* SpecFraming: this step is a read of reader thread t that timed out
ReadTimesOut(t) ==
    /\ thr[t].st = "run"
    /\ thr[t].pc = "read"
    /\ script' = Append(script, Err("TimedOut"))

----------------------------------------------------------------------------
\* C1: at every moment at most one reader thread is alive for a device id,
\* whatever open_port, close_port and poll_events calls were made: open_port
\* on an open id joins the previous reader thread before it spawns the new one.
C1_OneReaderPerPort ==
    \A name \in Ids : Cardinality(Alive(name)) <= 1

\* a port's first reader thread sent an event and has exited after a
\* close_port or a reopen, and the port's second reader thread is running
C1_Witness ==
    \E t1, t2 \in Tids :
       /\ t1 < t2
       /\ thr[t1].st = "done"
       /\ thr[t2].st = "run"
       /\ reader_handles[thr[t2].port] = t2
       /\ \E i \in DOMAIN produced :
             /\ produced[i].tid = t1
             /\ produced[i].ev.port = thr[t2].port
             /\ produced[i].ev.kind = "Data"

\* C2: once set_delimiter(id, d) has returned true, so that port_modes holds
\* CustomDelimiter(d) for id, the running reader thread of id frames every
\* chunk it reads on byte d, starting from the accumulator as it is.
C2_SetDelimiterTakesEffect ==
    [][\A t \in Tids :
          (ReadsChunk(t) /\ port_modes[thr[t].port].tag = "CustomDelimiter")
          => LET f == FrameBytes(thr[t].port, port_modes[thr[t].port].delim,
                                 thr[t].line_buffer, script'[Len(script')].data)
             IN /\ thr'[t].pending = f.events
                /\ thr'[t].line_buffer = f.line_buffer]_vars

\* C3: a read of a reader thread that fails with a Transient error (timeout
\* or would-block) never closes the device: the thread has no Disconnected
\* event to send for it and goes on with its loop.
C3_TransientNeverCloses ==
    \A t \in Tids :
       (thr[t].st = "run" /\ thr[t].last \in {"TimedOut", "WouldBlock"})
       => /\ ~thr[t].brk
          /\ \A i \in DOMAIN thr[t].pending :
                thr[t].pending[i].kind # "Disconnected"

\* C4: a reader thread whose read fails with a hard (non-timeout) error sends
\* exactly one Disconnected event for its port and exits; the next event
\* of that port, if any, comes from a reader thread spawned by a later open_port.
C4_HardErrorDisconnectsOnce ==
    /\ \A t \in Tids :
          (thr[t].st = "run" /\ thr[t].last \notin {"NoRead", "Ok", "TimedOut"})
          => /\ thr[t].pending = <<Disconnected(thr[t].port)>>
             /\ thr[t].brk
    /\ \A i \in DOMAIN produced :
          produced[i].ev.kind = "Disconnected"
          => /\ thr[produced[i].tid].st = "done"
             /\ \A j \in DOMAIN produced :
                   (j > i /\ produced[j].ev.port = produced[i].ev.port)
                   => produced[j].tid > produced[i].tid

\* a reader thread has sent Disconnected after a hard error and exited, the
\* port was opened again and its new reader thread has sent an event
C4_Witness ==
    \E i, j \in DOMAIN produced :
       /\ i < j
       /\ produced[i].ev = Disconnected(produced[j].ev.port)
       /\ thr[produced[i].tid].st = "done"
       /\ produced[j].tid > produced[i].tid

\* C5: in LineBuffered mode, whatever the chunks read, every byte read is
\* appended to the accumulator and each time a line feed is appended the
\* accumulator, line feed included, is sent as one Data message and cleared:
\* the messages and the accumulator hold the bytes read, in order; a line feed
\* is only ever the last byte of a message; a message without one is a flush
\* on timeout. "ab", "c\n", "de" then a timeout give "abc\n" then "de".
C5_LineBufferedFraming ==
    \A t \in Tids :
       (thr[t].st = "run" /\ thr[t].mode = LineBuffered)
       => LET msgs == Messages(t)
          IN /\ Flatten(msgs) \o thr[t].line_buffer = Flatten(ChunksRead)
             /\ Places(LF, thr[t].line_buffer) = {}
             /\ \A i \in DOMAIN msgs :
                   /\ msgs[i] # <<>>
                   /\ Places(LF, msgs[i]) \subseteq {Len(msgs[i])}
             /\ Cardinality({i \in DOMAIN msgs : Places(LF, msgs[i]) # {}})
                   = Cardinality(Places(LF, Flatten(ChunksRead)))
             /\ Cardinality({i \in DOMAIN msgs : Places(LF, msgs[i]) = {}})
                   <= Cardinality(Timeouts)
             /\ script = <<Ok(<<97, 98>>), Ok(<<99, 10>>), Ok(<<100, 101>>),
                           Err("TimedOut")>>
                => msgs = <<(<<97, 98, 99, 10>>), (<<100, 101>>)>>

\* the reader thread, in LineBuffered mode, has read "ab", "c\n", "de", timed
\* out, and sent "abc\n" and "de"
C5_Witness ==
    /\ thr[1].st = "run"
    /\ thr[1].mode = LineBuffered
    /\ script = <<Ok(<<97, 98>>), Ok(<<99, 10>>), Ok(<<100, 101>>),
                  Err("TimedOut")>>
    /\ Payloads(queue) = <<(<<97, 98, 99, 10>>), (<<100, 101>>)>>

\* C6: a device in CustomDelimiter(d) mode: a chunk with several delimiters
\* gives one Data message per delimiter, each ending with d, and the bytes after
\* the last delimiter stay in the accumulator. d = '|' and "x|y|z" give "x|",
\* "y|" and keep "z".
C6_CustomDelimiterFraming ==
    [][\A t \in Tids :
          (ReadsChunk(t) /\ port_modes[thr[t].port].tag = "CustomDelimiter")
          => LET d == port_modes[thr[t].port].delim
                 c == script'[Len(script')].data
                 at == Places(d, c)
                 after == IF at = {} THEN c
                          ELSE SubSeq(c, 1 + (CHOOSE i \in at : \A j \in at : j <= i),
                                      Len(c))
                 msgs == Payloads(thr'[t].pending)
                 buf == thr'[t].line_buffer
             IN /\ Len(msgs) = Cardinality(at)
                /\ \A i \in DOMAIN msgs :
                      msgs[i] # <<>> /\ msgs[i][Len(msgs[i])] = d
                /\ Len(buf) >= Len(after)
                /\ SubSeq(buf, Len(buf) - Len(after) + 1, Len(buf)) = after
                /\ at # {} => buf = after]_vars

\* C7: in Raw mode every nonempty chunk read is sent as it is, as one Data
\* message of its own, and the accumulator is empty all along.
C7_RawVerbatim ==
    \A t \in Tids :
       (thr[t].st = "run" /\ thr[t].mode = Raw)
       => /\ Messages(t) = ChunksRead
          /\ thr[t].line_buffer = <<>>

\* the reader thread, in Raw mode, has read "A" then "B" and sent "A" and "B"
C7_Witness ==
    /\ thr[1].st = "run"
    /\ thr[1].mode = Raw
    /\ script = <<Ok(<<65>>), Ok(<<66>>)>>
    /\ Payloads(queue) = <<(<<65>>), (<<66>>)>>

\* C8: a read that times out: in a mode other than Raw and with a nonempty
\* accumulator the thread has one Data message to send, the accumulator, and
\* the accumulator is cleared; with an empty accumulator, or in Raw mode, it
\* has nothing to send and goes on.
C8_TimeoutFlush ==
    [][\A t \in Tids :
          ReadTimesOut(t)
          => IF thr[t].mode.tag # "Raw" /\ thr[t].line_buffer # <<>>
             THEN /\ thr'[t].pending = <<Data(thr[t].port, thr[t].line_buffer)>>
                  /\ thr'[t].line_buffer = <<>>
                  /\ thr'[t].pc = "send"
                  /\ ~thr'[t].brk
             ELSE /\ thr'[t].pending = <<>>
                  /\ thr'[t].line_buffer = thr[t].line_buffer
                  /\ thr'[t].pc = "check"
                  /\ thr'[t].st = "run"]_vars

\* the reader thread, in a mode other than Raw, holding "de", has timed out:
\* it has "de" to send and its accumulator is empty
C8_Witness ==
    /\ thr[1].st = "run"
    /\ thr[1].mode.tag # "Raw"
    /\ thr[1].last = "TimedOut"
    /\ thr[1].pending = <<Data("a", <<100, 101>>)>>
    /\ thr[1].line_buffer = <<>>

\* the first step of a poll_events call: it takes the events of the channel
PollCalled == poll_events /\ queue # <<>>

\* C9: poll_events takes every event that is in the channel when it is called,
\* without waiting, and every event sent is returned by one poll_events call
\* and no other: none is lost and none is returned twice, so a second
\* poll_events with nothing sent in between returns nothing.
C9_PollDrainsEachEventOnce ==
    /\ [](BagOfSeq(EvOf(produced)) = BagOfSeq(InOrder))
    /\ [][PollCalled => (queue' = <<>> /\ BagOfSeq(Received') = BagOfSeq(Received \o queue))]_vars

\* two events were sent, of two devices, and poll_events has returned the
\* two; the channel is empty
C9_Witness ==
    /\ mgr.pc = "idle"
    /\ queue = <<>>
    /\ Len(delivered) = 2
    /\ Len(produced) = 2
    /\ delivered[1].port # delivered[2].port

\* q is the beginning of r
IsPrefix(q, r) == Len(q) <= Len(r) /\ q = SubSeq(r, 1, Len(q))

\* C10: poll_events returns the events in the order they arrived in the
\* channel: the events of one device reach the host in the order its reader
\* threads sent them, in one poll and across polls, however the reader threads
\* interleave.
C10_PerDeviceOrder ==
    \A name \in Ids :
       IsPrefix(EventsOfPort(name, delivered), EventsOfPort(name, EvOf(produced)))

\* C11 as claimed: a poll_events call that took a Disconnected(id) event from
\* the channel returns it to the host and has done close_port(id): when the
\* call returns, id is in no map of the registry (is_open(id) is false) and no
\* reader thread of id is alive.
C11_PollClosesDisconnected ==
    [][\A name \in Ids :
          (\E i \in (Len(delivered) + 1)..Len(delivered') :
              delivered'[i] = Disconnected(name))
          => /\ ~is_open(name)'
             /\ reader_handles'[name] = 0
             /\ stop_flags'[name] = 0
             /\ port_modes'[name] = NoMode
             /\ Alive(name)' = {}]_vars

\* a name in none of the four maps
Unregistered(name) ==
    /\ ports[name] = 0
    /\ reader_handles[name] = 0
    /\ stop_flags[name] = 0
    /\ port_modes[name] = NoMode

\* name is closed: in no map of the registry, and no reader thread of it alive
Closed(name) == Unregistered(name) /\ Alive(name) = {}

\* the step of poll_events that ends the close_port(name) it does for a
\* Disconnected(name) event: the removal from ports and port_modes, after the
\* join when there was a thread to join
PollClosed(name) ==
    \/ /\ PollEmit
       /\ Head(mgr.events) = Disconnected(name)
       /\ mgr'.pc # "join"
    \/ /\ JoinReturn
       /\ mgr.op = "poll"
       /\ mgr.name = name

\* a poll_events call that has not returned yet has relayed Disconnected(name):
\* the event is in the array of the call, which is the call in progress or one
\* that waits in an emit_signal for a call of a handler to return
Relayed(name) ==
    \/ mgr.op = "poll" /\ Disconnected(name) \in Range(mgr.out)
    \/ \E i \in DOMAIN mgr.outer :
          Disconnected(name) \in Range(mgr.outer[i].out)

\* a handler of the host opens name again: an open_port(name, ...) called from
\* an emit_signal of poll_events finds the device
HandlerOpens(name) ==
    /\ mgr.pc = "emit"
    /\ \E mode \in ModeArgs : open_port(name, mode, TRUE)

\* the step is the return of a poll_events call that returns Disconnected(name)
PollReturns(name) ==
    \E i \in (Len(delivered) + 1)..Len(delivered') :
       delivered'[i] = Disconnected(name)

\* C11 amended: a poll_events call that took a Disconnected(id) event from the
\* channel relays it to the host and then does close_port(id): when that
\* close_port has returned, id is in no map of the registry (is_open(id) is
\* false) and no reader thread of id is alive; from then on and until the call
\* has returned, no step but an open_port(id) of a handler of the host that
\* finds the device ends this; so, when the call returns, id is in no map and
\* no reader thread of id is alive, unless a handler has opened id again
\* since the close_port.
C11_PollClosesWhenRelayed ==
    [][\A name \in Ids :
          /\ PollClosed(name) => Closed(name)'
          /\ (Relayed(name) /\ Closed(name))
                => (Closed(name)' \/ HandlerOpens(name))
          /\ PollReturns(name)
                => \/ Closed(name)'
                   \/ /\ Relayed(name)
                      /\ ~Closed(name)
                      /\ ~PollClosed(name)
                      /\ is_open(name)']_vars

\* poll_events has relayed Disconnected("a") and closed "a", a handler of the
\* host has called the manager since and returned, and the call, which has
\* more events to relay, finds "a" still closed
C11_Witness ==
    /\ mgr.pc = "emit"
    /\ mgr.op = "poll"
    /\ mgr.outer = <<>>
    /\ mgr.calls > 0
    /\ mgr.events # <<>>
    /\ Disconnected("a") \in Range(mgr.out)
    /\ Closed("a")

\* C12: an event that poll_events takes from the channel while its id is in
\* no map of the registry (close_port removed it) is dropped: the call does not
\* relay it to the host, and goes on without an error.
C12_StaleEventsDropped ==
    [][(PollEmit /\ ~is_open(Head(mgr.events).port))
       => LET out == Append(mgr.out, Head(mgr.events))
          IN /\ delivered' # delivered \o out
             /\ mgr'.out # out]_vars

\* C13: close_port never fails and always returns. On an id that is not
\* registered (never opened, or closed already) it returns at once and changes
\* nothing; on a registered id it sets the stop flag and joins the reader
\* thread, and the join returns, the reads returning within their timeout, once
\* the thread has seen the flag (or had exited already); when close_port returns
\* the id is in no map and the other ids are as they were.
C13_ClosePortIdempotentReturns ==
    /\ [][\A name \in Ids :
             close_port(name)
             => /\ \A n \in Ids \ {name} :
                      /\ ports'[n] = ports[n]
                      /\ reader_handles'[n] = reader_handles[n]
                      /\ stop_flags'[n] = stop_flags[n]
                      /\ port_modes'[n] = port_modes[n]
                /\ IF reader_handles[name] = 0
                   THEN mgr'.pc # "join" /\ Unregistered(name)'
                   ELSE /\ mgr'.pc = "join"
                        /\ flag'[reader_handles[name]]]_vars
    /\ [][\A name \in Ids :
             (mgr.pc = "join" /\ mgr.op = "close" /\ mgr.name = name
                 /\ mgr'.pc # "join")
             => /\ Unregistered(name)'
                /\ thr[mgr.tid].st = "done"
                /\ Alive(name)' = {}]_vars
    /\ (mgr.pc = "join" /\ mgr.op = "close") ~> (mgr.pc # "join")

\* close_port has returned for a port whose reader thread was running: the
\* thread saw the flag and exited, the port is in no map
C13_Witness ==
    /\ mgr.pc = "idle"
    /\ \E t \in Tids :
          /\ thr[t].st = "done"
          /\ flag[t]
          /\ Unregistered("a")
          /\ \A i \in DOMAIN produced : produced[i].ev.kind = "Data"
          /\ \E i \in DOMAIN produced :
                produced[i].tid = t /\ produced[i].ev.port = "a"

\* the entries of every id but name, and every reader thread but that of name
\* that is being joined, stay as they are in this step
OthersUnchanged(name) ==
    /\ \A n \in Ids \ {name} :
          /\ ports'[n] = ports[n]
          /\ reader_handles'[n] = reader_handles[n]
          /\ stop_flags'[n] = stop_flags[n]
          /\ port_modes'[n] = port_modes[n]
    /\ thr' = thr

\* this step is the return of an open_port(name, ...) that could not open the
\* port, after the join of the reader thread name had
FailedOpenReturns(name) ==
    /\ mgr.pc = "join"
    /\ mgr.op = "open"
    /\ mgr.name = name
    /\ ~mgr.ok
    /\ mgr'.pc # "join"

\* C14 as claimed: an open_port(id, ...) that cannot open the port returns
\* false and leaves the registry as it was before the call, also when id was
\* open: id still has its port, flag, mode and its running reader thread.
C14_FailedOpenLeavesRegistry ==
    [][\A name \in Ids :
          /\ ((\E mode \in ModeArgs : open_port(name, mode, FALSE))
                 /\ mgr'.pc # "join")
             => UNCHANGED <<ports, reader_handles, stop_flags, port_modes,
                            flag, thr>>
          /\ FailedOpenReturns(name)
             => /\ is_open(name)'
                /\ reader_handles'[name] = mgr.tid
                /\ stop_flags'[name] = mgr.tid
                /\ thr'[mgr.tid].st = "run"]_vars

\* C14 amended: an open_port(id, ...) that cannot open the port returns false
\* and leaves the registry as close_port(id) leaves it: id is in no map and has
\* no reader thread alive (its reader thread, if it had one, was stopped and
\* joined), no thread is spawned, and the entries and reader threads of every
\* other id are as before the call; the registry is exactly as before the
\* call when id was not registered.
C14_FailedOpenClosesOnly ==
    [][\A name \in Ids :
          /\ ((\E mode \in ModeArgs : open_port(name, mode, FALSE))
                 /\ mgr'.pc # "join")
             => /\ Unregistered(name)
                /\ UNCHANGED <<ports, reader_handles, stop_flags, port_modes,
                               flag, thr>>
          /\ ((\E mode \in ModeArgs : open_port(name, mode, FALSE))
                 /\ mgr'.pc = "join")
             => /\ ~Unregistered(name)
                /\ ~mgr'.ok
                /\ flag'[reader_handles[name]]
                /\ OthersUnchanged(name)
          /\ FailedOpenReturns(name)
             => /\ Unregistered(name)'
                /\ Alive(name)' = {}
                /\ thr[mgr.tid].st = "done"
                /\ OthersUnchanged(name)]_vars

\* open_port("a", ...) on the open port "a" has stopped and joined the reader
\* thread of "a", which had sent data, and the port cannot be opened: the call
\* is about to return false; port "b" is open
C14_Witness ==
    /\ mgr.pc = "join"
    /\ mgr.op = "open"
    /\ mgr.name = "a"
    /\ ~mgr.ok
    /\ thr[mgr.tid].st = "done"
    /\ is_open("b")
    /\ \E i \in DOMAIN produced : produced[i].tid = mgr.tid

\* reader thread t is inside port.read on its port
ReaderInCall(t) == thr[t].st = "run" /\ thr[t].pc = "call"
\* write_port or reconfigure_port is inside a call on the port of thread t
ForegroundInCall(t) == mgr.pc \in TransportCalls /\ mgr.tid = t

\* C15: the calls on the port of a device exclude each other: its reader thread
\* is not inside port.read while write_port or reconfigure_port is inside a
\* call on the same port, and whoever is inside a call holds the port's lock.
C15_TransportMutualExclusion ==
    \A t \in Tids :
       /\ ~(ReaderInCall(t) /\ ForegroundInCall(t))
       /\ ReaderInCall(t) => lock[t] = "reader"
       /\ ForegroundInCall(t) => lock[t] = "manager"

\* write_port is inside write_all on a port whose reader thread is running and
\* waits for the lock to read
C15_Witness ==
    \E t \in Tids :
       /\ ForegroundInCall(t)
       /\ mgr.pc = "write_all"
       /\ thr[t].st = "run"
       /\ thr[t].pc = "read"
       /\ ~flag[t]

\* C16: whoever takes the lock of a port releases it after one call on the
\* port: the reader thread after its read, write_port and reconfigure_port
\* after their first call; no one goes from one call on the port to another
\* with the lock held.
C16_OneCallPerLock ==
    [][\A t \in Tids :
          /\ (ReaderInCall(t) /\ thr'[t] # thr[t]) => lock'[t] = "free"
          /\ (ForegroundInCall(t) /\ mgr' # mgr) => lock'[t] # "manager"]_vars

\* C17: a reader thread that cannot take the lock of its port, the lock being
\* poisoned, signals the loss of its device: a reader thread that has exited
\* without close_port asking it to has sent Disconnected for its port, so that
\* poll_events tears the device down.
C17_PoisonSignalsDisconnected ==
    \A t \in Tids :
       (thr[t].st = "done" /\ ~flag[t])
       => \E i \in DOMAIN produced :
             /\ produced[i].tid = t
             /\ produced[i].ev.kind = "Disconnected"

\* the class of an error of a call on the port: Disconnection (no device,
\* broken pipe, connection aborted, not connected, unexpected end of file,
\* permission denied), Transient (timed out, would block), or Other
ErrorClass(err) ==
    IF err.kind = "NoDevice"
          \/ err.io \in {"BrokenPipe", "ConnectionAborted", "NotConnected",
                         "UnexpectedEof", "PermissionDenied"}
    THEN "Disconnection"
    ELSE IF err.io \in {"TimedOut", "WouldBlock"} THEN "Transient"
    ELSE "Other"

\* the GdSerial has no port, and knows it
TornDown == ser.port = "None" /\ ~ser.is_connected

\* C18: is_open() on a GdSerial that holds a port asks the port for
\* its bytes to read; it drops the port, clears is_connected and returns false
\* only when the query fails with a Disconnection error; when the query
\* succeeds or fails with a Transient or Other error it returns true and the
\* GdSerial keeps its port.
C18_ProbeTearsDownOnDisconnectionOnly ==
    (ser.op = "is_open" /\ ser.calls # <<>>)
    => LET c == ser.calls[1]
       IN IF ~c.ok /\ ErrorClass(c.err) = "Disconnection"
          THEN ~ser.ret /\ TornDown
          ELSE ser.ret /\ ser.port = "Some"

\* C19: read, write, readline and clear_buffer begin with the probe: the
\* first call on the port, if any, is the bytes-to-read query, and when the
\* probe returns false (no port, or the query failed) the operation returns
\* false or empty and makes no read, write_all, flush or clear call.
C19_ProbeBeforeIo ==
    ser.op \in {"read", "write", "readline", "clear_buffer"}
    => /\ ser.calls # <<>> => ser.calls[1].call = "bytes_to_read"
       /\ \A i \in 2..Len(ser.calls) :
             ser.calls[i].call \in {"read", "write_all", "flush", "clear"}
       /\ (ser.calls = <<>> \/ ~ser.calls[1].ok)
          => /\ Len(ser.calls) <= 1
             /\ ~ser.ret
             /\ ser.data = <<>>
             /\ ser.port = "None"

\* readline() has returned the empty string after a failed probe, without a read
C19_Witness ==
    /\ ser.op = "readline"
    /\ ser.calls = <<Call("bytes_to_read", QErr(SerialError("NoDevice")))>>
    /\ ser.data = <<>>

\* C20: write() whose probe passed and whose write_all or flush failed returns
\* false; after a Disconnection error the GdSerial has dropped its port and
\* cleared is_connected, and an is_open() that follows returns false; after a
\* Transient or Other error the GdSerial keeps its port and is_connected is
\* as before the call.
C20_WriteErrorHandling ==
    [][/\ (ser'.op = "write" /\ Len(ser'.calls) >= 2
              /\ ~ser'.calls[Len(ser'.calls)].ok)
          => /\ ~ser'.ret
             /\ ser'.calls[Len(ser'.calls)].call \in {"write_all", "flush"}
             /\ IF ErrorClass(ser'.calls[Len(ser'.calls)].err) = "Disconnection"
                THEN ser'.port = "None" /\ ~ser'.is_connected
                ELSE ser'.port = "Some" /\ ser'.is_connected = ser.is_connected
       /\ (ser.op = "write" /\ TornDown /\ ser'.op = "is_open")
          => ~ser'.ret /\ ser'.calls = <<>>]_vars

\* write() has returned false: its probe passed, write_all succeeded and flush
\* failed with a broken pipe; the port is dropped
C20_Witness ==
    /\ ser.op = "write"
    /\ ser.calls = <<Call("bytes_to_read", QOk(0)), Call("write_all", SOk(<<>>)),
                     Call("flush", SErr(IoError("BrokenPipe")))>>
    /\ ~ser.ret
    /\ TornDown

\* C21: read() whose probe passed and whose read on the port failed returns
\* the empty array; after a Transient error (timed out, would block) or an
\* Other error the GdSerial keeps its port and is_connected is as before the
\* call; after a Disconnection error it has dropped its port and cleared
\* is_connected.
C21_ReadErrorHandling ==
    [][(ser'.op = "read" /\ Len(ser'.calls) = 2 /\ ~ser'.calls[2].ok)
       => /\ ser'.calls[2].call = "read"
          /\ ser'.data = <<>>
          /\ IF ErrorClass(ser'.calls[2].err) = "Disconnection"
             THEN ser'.port = "None" /\ ~ser'.is_connected
             ELSE ser'.port = "Some" /\ ser'.is_connected = ser.is_connected]_vars

\* read() has returned empty after its read failed with an Other error; the
\* GdSerial has its port and is connected
C21_Witness ==
    /\ ser.op = "read"
    /\ ser.calls = <<Call("bytes_to_read", QOk(3)),
                     Call("read", SErr(IoError("Other")))>>
    /\ ser.data = <<>>
    /\ ser.port = "Some"
    /\ ser.is_connected

\* the text of the bytes a readline call was given by its reads on the port,
\* without the carriage returns and the line feed, which it never pushes
Accumulated(calls) ==
    LET got == SelectSeq(calls, LAMBDA c : c.call = "read" /\ c.ok
                                           /\ Len(c.val) = 1
                                           /\ c.val[1] \notin {CR, LF})
    IN [i \in DOMAIN got |-> got[i].val[1]]

\* C22: a readline() that pushed at least one byte to its line returns the
\* line, whatever ended its loop: a line feed, a read of no byte, a timeout,
\* WouldBlock, a disconnection error or another error.
C22_PartialLineReturned ==
    (ser.op = "readline" /\ Accumulated(ser.calls) # <<>>)
        => ser.data = Accumulated(ser.calls)

\* readline() has read 'h', 'e', 'l' and then timed out, and returned "hel"
C22_Witness ==
    /\ ser.op = "readline"
    /\ ser.calls = <<Call("bytes_to_read", QOk(3)),
                     Call("read", SOk(<<104>>)), Call("read", SOk(<<101>>)),
                     Call("read", SOk(<<108>>)),
                     Call("read", SErr(IoError("TimedOut")))>>
    /\ ser.data = <<104, 101, 108>>

\* C23: open() with no port name set returns false and changes nothing; with
\* a name set and the port not obtained it returns false and leaves the
\* GdSerial without a port and not connected, whatever it held before; with
\* the port obtained it returns true, holds the port and is connected.
C23_OpenOutcomes ==
    [][ser'.op = "open"
       => IF ser.port_name = ""
          THEN /\ ~ser'.ret
               /\ ser'.port = ser.port
               /\ ser'.is_connected = ser.is_connected
               /\ ser'.port_name = ser.port_name
          ELSE IF ser'.ret
          THEN ser'.port = "Some" /\ ser'.is_connected
          ELSE ser'.port = "None" /\ ~ser'.is_connected]_vars

\* the configuration of a GdSerial
Config(s) ==
    [baud_rate |-> s.baud_rate, data_bits |-> s.data_bits,
     stop_bits |-> s.stop_bits, flow_control |-> s.flow_control,
     parity |-> s.parity, timeout |-> s.timeout]

\* C24: set_data_bits with a value other than 6, 7 and 8 leaves data_bits and
\* every other field of the configuration as they were.
C24_InvalidDataBitsIgnored ==
    [][(ser'.op = "set_data_bits" /\ ser'.arg \notin {6, 7, 8})
       => Config(ser') = Config(ser)]_vars

\* set_data_bits(9) has returned on a GdSerial configured with seven data
\* bits and odd parity, which it still has
C24_Witness ==
    /\ ser.op = "set_data_bits"
    /\ ser.arg = 9
    /\ ser.data_bits = "Seven"
    /\ ser.parity = "Odd"

\* C25: every setter keeps the stored value when its argument is out of the
\* domain: set_parity outside 0..2, set_stop_bits outside {1, 2} and
\* set_flow_control outside {0, 1, 2} leave the configuration as it was.
C25_InvalidValuesIgnored ==
    [][/\ (ser'.op = "set_parity" /\ ser'.arg \notin 0..2)
          => Config(ser') = Config(ser)
       /\ (ser'.op = "set_stop_bits" /\ ser'.arg \notin {1, 2})
          => Config(ser') = Config(ser)
       /\ (ser'.op = "set_flow_control" /\ ser'.arg \notin {0, 1, 2})
          => Config(ser') = Config(ser)]_vars

\* C26: the stop flag of a reader thread, once set, stays set; the thread
\* then never starts another read (it makes at most the one it was about to
\* make when the flag was set), it exits at its next test of the flag without
\* sending anything, and it exits eventually, its read returning.
C26_CooperativeCancellation ==
    /\ [][\A t \in Tids :
            flag[t]
            => /\ flag'[t]
               /\ thr'[t] # thr[t] => thr'[t].pc # "read"
               /\ (thr[t].st = "run" /\ thr[t].pc = "check"
                      /\ thr'[t] # thr[t])
                  => thr'[t].st = "done" /\ queue' = queue]_vars
    /\ \A t \in Tids :
          (flag[t] /\ thr[t].st = "run") ~> (thr[t].st = "done")

\* close_port has set the flag of a reader thread and waits in join; the
\* thread has exited and has never sent Disconnected
C26_Witness ==
    \E t \in Tids :
       /\ flag[t]
       /\ thr[t].st = "done"
       /\ mgr.pc = "join"
       /\ \A i \in DOMAIN produced :
             produced[i].tid = t => produced[i].ev.kind # "Disconnected"

\* the bytes the reads of a readline call returned, in order
BytesRead(calls) ==
    LET got == SelectSeq(calls, LAMBDA c : c.call = "read" /\ c.ok
                                           /\ Len(c.val) = 1)
    IN [i \in DOMAIN got |-> got[i].val[1]]

\* a line without its terminator: the bytes before the line feed, less a
\* carriage return right before it
RECURSIVE LineOf(_)
LineOf(bytes) ==
    IF bytes = <<>> THEN <<>>
    ELSE IF Head(bytes) = LF THEN <<>>
    ELSE IF Head(bytes) = CR /\ Len(bytes) >= 2 /\ bytes[2] = LF THEN <<>>
    ELSE <<Head(bytes)>> \o LineOf(Tail(bytes))

\* C27: a readline() that read a line feed returns the bytes read before it,
\* less a carriage return read right before the line feed; a carriage return
\* read anywhere else is in the line returned.
C27_OnlyFinalCarriageReturnStripped ==
    (ser.op = "readline" /\ \E i \in DOMAIN ser.calls :
                                /\ ser.calls[i].call = "read"
                                /\ ser.calls[i].val = <<LF>>)
        => ser.data = LineOf(BytesRead(ser.calls))

\* C28: after every call on a GdSerial, is_connected is true if and only if
\* the GdSerial holds a port.
C28_ConnectedIffPort ==
    ser.is_connected <=> ser.port = "Some"

\* C29: poll_events closes a registered port only for a Disconnected event
\* that the current reader thread of the port sent: while a poll_events call
\* joins the reader thread of a port it is closing, that thread is one that
\* sent a Disconnected event, never the thread of a later open_port of the id.
C29_StaleDisconnectedIgnored ==
    (mgr.pc = "join" /\ mgr.op = "poll")
        => \E i \in DOMAIN produced :
              /\ produced[i].tid = mgr.tid
              /\ produced[i].ev = Disconnected(mgr.name)

\* the ids of each of the four maps
IdsOfPorts == {name \in Ids : ports[name] # 0}
IdsOfHandles == {name \in Ids : reader_handles[name] # 0}
IdsOfFlags == {name \in Ids : stop_flags[name] # 0}
IdsOfModes == {name \in Ids : port_modes[name] # NoMode}

\* C30: while no call on the manager is in progress, the four maps (ports,
\* reader_handles, stop_flags, port_modes) hold the same ids, after any calls
\* of open_port, close_port, set_delimiter, write_port and poll_events.
C30_RegistryConsistent ==
    mgr.pc = "idle"
        => /\ IdsOfPorts = IdsOfHandles
           /\ IdsOfPorts = IdsOfFlags
           /\ IdsOfPorts = IdsOfModes

\* no call is in progress; "a" is open and set_delimiter has given it the
\* delimiter '|'; poll_events has returned Disconnected("b") and closed "b"
C30_Witness ==
    /\ mgr.pc = "idle"
    /\ IdsOfPorts = {"a"}
    /\ IdsOfModes = {"a"}
    /\ port_modes["a"] = CustomDelimiter(124)
    /\ \E i \in DOMAIN delivered : delivered[i] = Disconnected("b")

\* C31: a reader thread loses, repeats and reorders no byte: at the end of
\* each iteration of its loop the payloads of the Data events it has sent,
\* followed by its line_buffer, are the bytes it has read, in order; in Raw
\* mode the line_buffer is empty. The same holds inside an iteration with the
\* events the thread is about to send.
C31_ByteConservation ==
    \A t \in Tids :
       thr[t].st = "run"
       => /\ Flatten(Messages(t)) \o thr[t].line_buffer = Flatten(ChunksRead)
          /\ thr[t].pc = "check"
             => Flatten(Payloads(queue)) \o thr[t].line_buffer
                   = Flatten(ChunksRead)
          /\ thr[t].mode = Raw => thr[t].line_buffer = <<>>

\* a reader thread in CustomDelimiter mode is at the end of an iteration: it
\* has read "ab" and "c\n" and a third chunk, has sent "abc\n" and keeps the
\* third chunk in its line_buffer
C31_Witness ==
    \E t \in Tids :
       /\ thr[t].st = "run"
       /\ thr[t].pc = "check"
       /\ thr[t].mode.tag = "CustomDelimiter"
       /\ Len(script) = 3
       /\ script[1] = Ok(<<97, 98>>)
       /\ script[2] = Ok(<<99, 10>>)
       /\ script[3].ok
       /\ Payloads(queue) = <<(<<97, 98, 99, 10>>)>>
       /\ thr[t].line_buffer = script[3].data
       /\ thr[t].line_buffer # <<>>

\* C32: a reader thread in a delimited mode that exits with bytes in its
\* line_buffer drops them. Stopped by close_port it exits at its test of the
\* flag and sends nothing; after a hard read error the last thing it sends is
\* Disconnected. Either way the payloads it has sent are the bytes it read
\* less those of the line_buffer: no Data event carries them.
C32_AccumulatorDiscardedOnStop ==
    [][\A t \in Tids :
          (thr[t].st = "run" /\ thr'[t].st = "done" /\ thr[t].mode # Raw
              /\ thr[t].line_buffer # <<>>)
          => /\ Flatten(Payloads(queue')) \o thr[t].line_buffer
                   = Flatten(ChunksRead')
             /\ IF thr[t].pc = "check"
                THEN flag[t] /\ queue' = queue
                ELSE queue' = Append(queue, Disconnected(thr[t].port))]_vars

\* the reader thread of "a", LineBuffered, has exited after a hard read error
\* and not because of its flag: Disconnected is the last event in the channel,
\* and the bytes read after the last line feed are in no Data event
C32_Witness ==
    /\ thr[1].st = "done"
    /\ ~flag[1]
    /\ port_modes["a"] = LineBuffered
    /\ queue # <<>>
    /\ queue[Len(queue)] = Disconnected("a")
    /\ Len(Flatten(Payloads(queue))) < Len(Flatten(ChunksRead))

\* C33: no thread waits for ever. A reader thread that runs can always take
\* a step, unless it is at the lock of its port while the manager holds it
\* inside a call on the port (it waits for nothing else: no map of the
\* registry, no join, and a send never blocks); the calls on a port returning,
\* a reader thread at the lock of its port gets past it, and every call of the
\* host on the manager (open_port, close_port, write_port, reconfigure_port,
\* set_delimiter, poll_events and the close_port inside it) returns, its join
\* and its lock() included.
C33_DeadlockFreedom ==
    /\ [](\A t \in Tids :
             thr[t].st = "run"
             => \/ ENABLED ReaderProgress(t)
                \/ ENABLED ReaderAcquire(t)
                \/ /\ thr[t].pc = "read"
                   /\ lock[t] = "manager"
                   /\ mgr.tid = t
                   /\ mgr.pc \in TransportCalls)
    /\ \A t \in Tids :
          (thr[t].st = "run" /\ thr[t].pc = "read")
             ~> (thr[t].st = "done" \/ thr[t].pc # "read")
    /\ (mgr.pc # "idle") ~> (mgr.pc = "idle")

\* a close_port that a handler of the host calls inside poll_events waits in
\* join for the reader thread of the port, which holds the lock of the port in
\* a read
C33_Witness ==
    /\ mgr.pc = "join"
    /\ mgr.op = "close"
    /\ mgr.outer # <<>>
    /\ thr[mgr.tid].st = "run"
    /\ thr[mgr.tid].pc = "call"
    /\ lock[mgr.tid] = "reader"

\* C34: once close_port(id) has returned, and until an open_port(id)
\* succeeds, nothing is sent to the channel for id: whenever a reader thread
\* sends an event, its port is in the registry, and the thread is the one the
\* registry holds for the port or the one a close_port that has not returned
\* yet is joining. The events sent before stay in the channel for poll_events.
C34_NoEventAfterClose ==
    [][\A t \in Tids :
          (Len(produced') = Len(produced) + 1
              /\ produced'[Len(produced')].tid = t)
          => LET name == produced'[Len(produced')].ev.port
             IN /\ queue' = Append(queue, produced'[Len(produced')].ev)
                /\ is_open(name)
                /\ \/ reader_handles[name] = t
                   \/ mgr.pc = "join" /\ mgr.name = name /\ mgr.tid = t]_vars

\* close_port("a") has returned: "a" is in no map, its reader thread was
\* stopped by its flag and has exited, and a Data event it had sent is still
\* in the channel
C34_Witness ==
    /\ mgr.pc = "idle"
    /\ Unregistered("a")
    /\ Alive("a") = {}
    /\ \E i \in DOMAIN produced :
          /\ produced[i].ev.port = "a"
          /\ produced[i].ev.kind = "Data"
          /\ flag[produced[i].tid]
          /\ thr[produced[i].tid].st = "done"
          /\ \E j \in DOMAIN queue : queue[j] = produced[i].ev

====
